---- MODULE Spec2Model ----
(***************************************************************************)
(* Live telemetry monitoring pipeline of specula-studio                    *)
(* (src/node_manager.py, class NodeManager).                               *)
(*                                                                         *)
(* Two execution contexts are modelled:                                    *)
(*   - the render context (the DearPyGui thread): open/close of a monitor, *)
(*     the Subscribe and Reconnect buttons, the consumer step              *)
(*     _monitor_update_frame, the periodic sweep and the queue-health      *)
(*     check;                                                              *)
(*   - the delivery context (the Socket.IO client thread): the connect,    *)
(*     params, data_update, disconnect and done handlers, plus the         *)
(*     detached delayed_request thread started by the consumer.            *)
(* monitor_lock is non-reentrant.  The render context holds it only inside *)
(* one `with` block at a time, so a render step that takes it is atomic.   *)
(* The delivery context can hold it across a blocking Queue.put (the       *)
(* fan-out of data_update), which is the only way it stays held between    *)
(* steps.                                                                  *)
(*                                                                         *)
(* The queue capacities and the thresholds compared with the queue length  *)
(* are scaled down (see the bounds below); the code's values are 100, 50,  *)
(* 5, 20 and 50.                                                           *)
(***************************************************************************)
EXTENDS Integers, Sequences, FiniteSets, TLC

\* ------------------------------------------------------------------ bounds
\* Number of monitors ever opened (monitor ids are never reused).
MaxOpens == 2
\* Queue(maxsize=100) of monitor_data_queue, scaled.
DataQueueMax == 2
\* Queue(maxsize=50) of status_update_queue, scaled.
StatusQueueMax == 1
\* max_items_per_frame = 5 of the consumer step, scaled.
MaxItemsPerFrame == 1
\* "qsize() < 20" before the delayed frame request, scaled.
NearSaturation == 1
\* "qsize > 50" of the queue-health check, scaled.
HealthLimit == 1
\* Cap of the counter of frame requests the server has not answered yet.
MaxOutstanding == 2
\* The cap on a monitor's skipped_frames counter.
MaxSkippedFrames == 2
\* The values time.time() takes when data_update stamps a queue item.
MaxStamp == 3

\* ------------------------------------------------------------ graph, names
\* The graph collaborator: node ids and their declared types.
Nodes == {"n1", "n2"}
OutputPort == "out"

NodeType(node) == IF node = "n1" THEN "PSF" ELSE "CCD"

\* type_to_name of _get_server_output_name (the entries the nodes use).
TypeToName(type) == IF type = "PSF" THEN "psf" ELSE "detector"

\* "<server_name>.<output_name>" is the pair <<server_name, output_name>>.
GetServerOutputName(node, output) == <<TypeToName(NodeType(node)), output>>

ServerNames == {GetServerOutputName(n, OutputPort) : n \in Nodes}

VARIABLES
    active_monitors,      \* monitor id -> [server_output_name, window]
    next_monitor,         \* number of monitor ids handed out so far
    subscribed_outputs,   \* set of server output names
    socketio_connected,   \* the client's connected flag
    sio_up,               \* the transport is really connected
    connect_evt,          \* a 'connect' event waits for its handler
    monitor_data_queue,   \* Queue(maxsize=DataQueueMax)
    status_update_queue,  \* Queue(maxsize=StatusQueueMax)
    outstanding,          \* 'newdata' requests not yet answered by 'done'
    delayed_request,      \* a delayed_request thread is sleeping
    dpc,                  \* delivery context: "idle", "fanout_put", "connect_put", "params_iter", "disconnect_iter"
    d_todo,               \* fan-out: monitors still to be put; a loop over the table: <<last key>> \o keys at its start
    rpc,                  \* render context: "idle", "clear", "putback", "lock_wait"
    r_mid,                \* close: the monitor being closed
    r_temp,               \* close: temp_queue of _clear_queue_for_monitor
    closed_monitors,      \* the monitors _close_monitor has deleted
    wire,                 \* messages emitted by the last step
    last,                 \* the last operation: [op, arg]
    monitor_running,      \* the flag of the consumer loop
    frame_callbacks,      \* scheduled invocations of _monitor_update_frame
    restart_timers,       \* pending Timer(0.1, _start_monitor_updater)
    cleanup_pc,           \* cleanup(): "run", "disconnect", "close", "done"
    uuid_to_server_name,  \* the resolver's cache: node id -> server node name
    resolved              \* the last call of _get_server_output_name: [node, output, value]

vars == <<active_monitors, next_monitor, subscribed_outputs, socketio_connected,
          sio_up, connect_evt, monitor_data_queue, status_update_queue,
          outstanding, delayed_request, dpc, d_todo, rpc, r_mid, r_temp,
          closed_monitors, wire, last, monitor_running, frame_callbacks,
          restart_timers, cleanup_pc, uuid_to_server_name, resolved>>

\* ------------------------------------------------------------------ helpers
Min2(a, b) == IF a <= b THEN a ELSE b

MinOf(S) == CHOOSE x \in S : \A y \in S : x <= y

\* A dict iterates in insertion order, which is ascending monitor id.
RECURSIVE Ascending(_)
Ascending(S) == IF S = {} THEN <<>>
                ELSE <<MinOf(S)>> \o Ascending(S \ {MinOf(S)})

Msg(type, arg) == [type |-> type, arg |-> arg]

DataItem(m) == [type |-> "data_update", monitor_id |-> m]
\* The item the connect handler queues carries no monitor id (0).
ConnectedItem == [type |-> "status_update", monitor_id |-> 0]

StatusItem(m, status) == [monitor_id |-> m, status |-> status]

\* What the last step was, for the operations the properties speak about:
\* "close" (arg: the monitor), "closed" (close returned; arg: the monitor),
\* "data_update" (name: the server output name), "request" (the done
\* handler, arg 1, or the delayed thread, arg 0, has made its call of
\* _request_next_frame), "frame" (the consumer step; samples: the monitors
\* it rendered a sample for or stored a pending sample in, labels: the
\* monitors whose status label it set, stale: the absent monitors whose
\* items it skipped), "frame_error" (a consumer step whose try body raised),
\* "cleanup" (a step of cleanup(); arg: the monitor it closed, or 0),
\* "disconnect", and "other".
\* The record has the same fields for every operation: arg is a monitor id
\* or a number, name a server output name, the three sets are monitor ids.
Op(op, arg) ==
    [op |-> op, arg |-> arg, name |-> <<>>, samples |-> {}, labels |-> {},
     stale |-> {}]
OpName(op, name) == [Op(op, 0) EXCEPT !.name = name]
OpFrame(samples, labels, stale) ==
    [Op("frame", 0) EXCEPT !.samples = samples, !.labels = labels,
                           !.stale = stale]
Other == Op("other", 0)

\* Times are in milliseconds.  A monitor is registered with last_update 0
\* and min_update_interval 0.1 s; pending_data is empty (None) or holds one
\* queue item.  overtaken is a history of the record, not a field of the
\* program: pending_data holds a sample that was delivered before a sample
\* the monitor has rendered since.
DefaultInterval == 100

NewMonitor(name) ==
    [server_output_name |-> name, window |-> TRUE, last_update |-> 0,
     min_update_interval |-> DefaultInterval, pending_data |-> <<>>,
     skipped_frames |-> 0, overtaken |-> FALSE]

\* "[mid for mid, info in active_monitors.items() if server_output_name == name]"
MonitorsUsing(mons, name) ==
    {m \in DOMAIN mons : mons[m].server_output_name = name}

Without(mons, dead) == [m \in (DOMAIN mons) \ dead |-> mons[m]]

NewdataCount(msgs) == Cardinality({i \in 1..Len(msgs) : msgs[i].type = "newdata"})

\* The monitor lock is held between steps only by a fan-out blocked in put.
LockHeld == dpc = "fanout_put"

\* data_update, "if qsize >= 100: ... return".
QueueFull(q) == Len(q) >= DataQueueMax

\* A data queue built without maxsize: a put never finds it full.
RoomUnbounded(q) == DataQueueMax

\* Queue(maxsize=...): the free slots of the data queue; a put waits while
\* there is none.
Room(q) == DataQueueMax - Len(q)

\* _safe_update_monitor_status: drop the oldest when full, then put.
SafeUpdateMonitorStatus(sq, m, status) ==
    IF Len(sq) >= StatusQueueMax
    THEN Append(Tail(sq), StatusItem(m, status))
    ELSE Append(sq, StatusItem(m, status))

\* "for monitor_id in ...: self._safe_update_monitor_status(monitor_id, status)"
RECURSIVE UpdateAll(_, _, _)
UpdateAll(sq, ids, status) ==
    IF ids = <<>> THEN sq
    ELSE UpdateAll(SafeUpdateMonitorStatus(sq, Head(ids), status), Tail(ids), status)

\* _request_next_frame without its two early returns.
RequestNextFrameUnchecked(connected, subs) == <<Msg("newdata", subs)>>

\* _request_next_frame: the messages it emits.
RequestNextFrame(connected, subs) ==
    IF ~connected THEN <<>>
    ELSE IF subs = {} THEN <<>>
    ELSE <<Msg("newdata", subs)>>

Emit(msgs) ==
    /\ wire' = msgs
    /\ outstanding' = Min2(MaxOutstanding, outstanding + NewdataCount(msgs))

\* ------------------------------------------------------------------- Init
\* NodeManager.__init__ ends with _connect_socketio(): the server is up
\* (connected, 'connect' event pending) or it is not.  after_dpg_init, which
\* runs before the first frame, has called _start_monitor_updater.
Init ==
    /\ active_monitors = <<>>
    /\ next_monitor = 0
    /\ subscribed_outputs = {}
    /\ sio_up \in BOOLEAN
    /\ socketio_connected = sio_up
    /\ connect_evt = sio_up
    /\ monitor_data_queue = <<>>
    /\ status_update_queue = <<>>
    /\ outstanding = 0
    /\ delayed_request = FALSE
    /\ dpc = "idle"
    /\ d_todo = <<>>
    /\ rpc = "idle"
    /\ r_mid = 0
    /\ r_temp = <<>>
    /\ closed_monitors = {}
    /\ wire = IF sio_up THEN <<Msg("test_connection", {})>> ELSE <<>>
    /\ last = Other
    /\ monitor_running = TRUE
    /\ frame_callbacks = 1
    /\ restart_timers = 0
    /\ cleanup_pc = "run"
    /\ uuid_to_server_name = <<>>
    /\ resolved = [node |-> <<>>, output |-> <<>>, value |-> <<>>]

\* ------------------------------------------------- subscription registry
\* _subscribe_output: add the name, confirm every monitor using it when the
\* name is new, then request data when connected.
SubscribeOutput(mons, name) ==
    LET subs == subscribed_outputs \cup {name}
    IN  /\ subscribed_outputs' = subs
        /\ status_update_queue' =
              IF name \notin subscribed_outputs
              THEN UpdateAll(status_update_queue,
                             Ascending(MonitorsUsing(mons, name)), "subscribed")
              ELSE status_update_queue
        /\ Emit(RequestNextFrame(socketio_connected, subs))

\* _unsubscribe_output without the scan for monitors still using the name.
UnsubscribeRemovesAnyway(mons, subs, name) == name \in subs

\* The condition of _unsubscribe_output under which the name is dropped.
UnsubscribeRemoves(mons, subs, name) ==
    /\ MonitorsUsing(mons, name) = {}
    /\ name \in subs

\* An unsubscribe request sent whatever the connected flag says.
SendUnsubscribeRequestAlways(connected, name) == <<Msg("unsubscribe", {name})>>

\* _send_unsubscribe_request, called "if self.socketio_connected".
SendUnsubscribeRequest(connected, name) ==
    IF connected THEN <<Msg("unsubscribe", {name})>> ELSE <<>>

\* _unsubscribe_output, with mons the table after the monitor was deleted.
UnsubscribeOutput(mons, name) ==
    IF UnsubscribeRemoves(mons, subscribed_outputs, name)
    THEN /\ subscribed_outputs' = subscribed_outputs \ {name}
         /\ Emit(SendUnsubscribeRequest(socketio_connected, name))
    ELSE /\ UNCHANGED subscribed_outputs
         /\ Emit(<<>>)

\* ------------------------------------------------------------- transport
\* _connect_socketio.  sio.connect raises when the client is already
\* connected; on a refused connection the client runs the connect_error
\* handler before it raises.
ConnectSocketio(mons) ==
    \/ /\ sio_up
       /\ socketio_connected' = FALSE
       /\ UNCHANGED <<sio_up, connect_evt, status_update_queue>>
       /\ Emit(<<>>)
    \/ /\ ~sio_up
       /\ sio_up' = TRUE
       /\ socketio_connected' = TRUE
       /\ connect_evt' = TRUE
       /\ UNCHANGED status_update_queue
       /\ Emit(<<Msg("test_connection", {})>>)
    \/ /\ ~sio_up
       /\ socketio_connected' = FALSE
       /\ UNCHANGED <<sio_up, connect_evt>>
       /\ status_update_queue' =
              UpdateAll(status_update_queue, Ascending(DOMAIN mons), "disconnected")
       /\ Emit(<<>>)

\* ------------------------------------------------- render context: open
\* _open_output_monitor: register the monitor, start the updater when it is
\* not running, connect when the flag is down, else subscribe; then set
\* monitor_running and schedule _monitor_update_frame.
OpenOutputMonitor(node) ==
    /\ rpc = "idle"
    /\ next_monitor < MaxOpens
    /\ LET m == next_monitor + 1
           name == GetServerOutputName(node, OutputPort)
           mons == active_monitors @@ (m :> NewMonitor(name))
       IN  /\ active_monitors' = mons
           /\ next_monitor' = m
           /\ IF ~socketio_connected
              THEN /\ ConnectSocketio(mons)
                   /\ UNCHANGED subscribed_outputs
              ELSE /\ ~LockHeld
                   /\ SubscribeOutput(mons, name)
                   /\ UNCHANGED <<socketio_connected, sio_up, connect_evt>>
           /\ last' = Other
    /\ monitor_running' = TRUE
    /\ frame_callbacks' = frame_callbacks + (IF monitor_running THEN 1 ELSE 2)
    /\ UNCHANGED <<monitor_data_queue, delayed_request, dpc, d_todo, rpc,
                   r_mid, r_temp, closed_monitors, restart_timers, cleanup_pc,
                   uuid_to_server_name, resolved>>

\* The "Subscribe" button of a monitor window.
SubscribeButton(m) ==
    /\ rpc = "idle"
    /\ ~LockHeld
    /\ m \in DOMAIN active_monitors
    /\ active_monitors[m].window
    /\ SubscribeOutput(active_monitors, active_monitors[m].server_output_name)
    /\ last' = OpName("subscribe", active_monitors[m].server_output_name)
    /\ UNCHANGED <<active_monitors, next_monitor, socketio_connected, sio_up,
                   connect_evt, monitor_data_queue, delayed_request, dpc,
                   d_todo, rpc, r_mid, r_temp,
                   closed_monitors, monitor_running, frame_callbacks, restart_timers, cleanup_pc,
                   uuid_to_server_name, resolved>>

\* The "Reconnect" button of a monitor window.
ReconnectButton(m) ==
    /\ rpc = "idle"
    /\ m \in DOMAIN active_monitors
    /\ active_monitors[m].window
    /\ ConnectSocketio(active_monitors)
    /\ last' = Other
    /\ UNCHANGED <<active_monitors, next_monitor, subscribed_outputs,
                   monitor_data_queue, delayed_request, dpc, d_todo, rpc,
                   r_mid, r_temp,
                   closed_monitors, monitor_running, frame_callbacks, restart_timers, cleanup_pc,
                   uuid_to_server_name, resolved>>

\* ------------------------------------------------ render context: close
\* _close_monitor without the "not in active_monitors" early return: a close
\* of an absent monitor goes on to the queue purge.
CloseMonitorUnchecked(m) ==
    /\ rpc = "idle"
    /\ ~LockHeld
    /\ m \in 1..next_monitor
    /\ active_monitors' = Without(active_monitors, {m})
    /\ IF m \in DOMAIN active_monitors
       THEN UnsubscribeOutput(Without(active_monitors, {m}),
                              active_monitors[m].server_output_name)
       ELSE UNCHANGED subscribed_outputs /\ Emit(<<>>)
    /\ rpc' = "clear"
    /\ r_mid' = m
    /\ closed_monitors' = closed_monitors \cup {m}
    /\ last' = Op("close", m)
    /\ UNCHANGED <<next_monitor, socketio_connected, sio_up, connect_evt,
                   monitor_data_queue, status_update_queue, delayed_request,
                   dpc, d_todo, r_temp, monitor_running, frame_callbacks, restart_timers, cleanup_pc,
                   uuid_to_server_name, resolved>>

\* _close_monitor up to and including _unsubscribe_output.  A monitor that
\* is not in the table makes it return at once.
CloseMonitor(m) ==
    /\ rpc = "idle"
    /\ ~LockHeld
    /\ m \in 1..next_monitor
    /\ IF m \notin DOMAIN active_monitors
       THEN /\ last' = Op("close", m)
            /\ Emit(<<>>)
            /\ UNCHANGED <<active_monitors, subscribed_outputs, rpc, r_mid,
                           closed_monitors, monitor_running, frame_callbacks, restart_timers, cleanup_pc,
                   uuid_to_server_name, resolved>>
       ELSE LET name == active_monitors[m].server_output_name
                mons == Without(active_monitors, {m})
            IN  /\ active_monitors' = mons
                /\ UnsubscribeOutput(mons, name)
                /\ rpc' = "clear"
                /\ r_mid' = m
                /\ closed_monitors' = closed_monitors \cup {m}
                /\ last' = Op("close", m)
    /\ UNCHANGED <<next_monitor, socketio_connected, sio_up, connect_evt,
                   monitor_data_queue, status_update_queue, delayed_request,
                   dpc, d_todo, r_temp, monitor_running, frame_callbacks, restart_timers, cleanup_pc,
                   uuid_to_server_name, resolved>>

\* A purge that puts every drained item back.
KeepAll(q, m) == q

\* _clear_queue_for_monitor, first loop: drain the queue, keep the items of
\* the other monitors in temp_queue.
KeepOthers(q, m) == SelectSeq(q, LAMBDA item : item.monitor_id # m)

ClearQueueDrain ==
    /\ rpc = "clear"
    /\ r_temp' = KeepOthers(monitor_data_queue, r_mid)
    /\ monitor_data_queue' = <<>>
    /\ rpc' = "putback"
    /\ wire' = <<>>
    /\ last' = Other
    /\ UNCHANGED <<active_monitors, next_monitor, subscribed_outputs,
                   socketio_connected, sio_up, connect_evt, status_update_queue,
                   outstanding, delayed_request, dpc, d_todo, r_mid,
                   closed_monitors, monitor_running, frame_callbacks, restart_timers, cleanup_pc,
                   uuid_to_server_name, resolved>>

\* _clear_queue_for_monitor, second loop: one blocking put per item.
ClearQueuePutBack ==
    /\ rpc = "putback"
    /\ r_temp # <<>>
    /\ Room(monitor_data_queue) > 0
    /\ monitor_data_queue' = Append(monitor_data_queue, Head(r_temp))
    /\ r_temp' = Tail(r_temp)
    /\ wire' = <<>>
    /\ last' = Other
    /\ UNCHANGED <<active_monitors, next_monitor, subscribed_outputs,
                   socketio_connected, sio_up, connect_evt, status_update_queue,
                   outstanding, delayed_request, dpc, d_todo, rpc, r_mid,
                   closed_monitors, monitor_running, frame_callbacks, restart_timers, cleanup_pc,
                   uuid_to_server_name, resolved>>

\* The last "with self.monitor_lock" of _close_monitor; close returns.
CloseReturn ==
    /\ rpc = "putback"
    /\ r_temp = <<>>
    /\ ~LockHeld
    /\ rpc' = "idle"
    /\ wire' = <<>>
    /\ last' = Op("closed", r_mid)
    /\ monitor_running' = (monitor_running /\ active_monitors # <<>>)
    /\ UNCHANGED <<active_monitors, next_monitor, subscribed_outputs,
                   socketio_connected, sio_up, connect_evt, monitor_data_queue,
                   status_update_queue, outstanding, delayed_request, dpc,
                   d_todo, r_mid, r_temp, closed_monitors, frame_callbacks,
                   restart_timers, cleanup_pc, uuid_to_server_name, resolved>>

\* ------------------------------------------ delivery context: handlers
\* The connect handler: set the flag, put a status item on the DATA queue
\* with a blocking put, then emit 'get_params'.
Connect ==
    /\ dpc = "idle"
    /\ connect_evt
    /\ connect_evt' = FALSE
    /\ socketio_connected' = TRUE
    /\ IF Room(monitor_data_queue) > 0
       THEN /\ monitor_data_queue' = Append(monitor_data_queue, ConnectedItem)
            /\ Emit(<<Msg("get_params", {})>>)
            /\ UNCHANGED dpc
       ELSE /\ dpc' = "connect_put"
            /\ Emit(<<>>)
            /\ UNCHANGED monitor_data_queue
    /\ last' = Other
    /\ UNCHANGED <<active_monitors, next_monitor, subscribed_outputs, sio_up,
                   status_update_queue, delayed_request, d_todo, rpc, r_mid,
                   r_temp, closed_monitors, monitor_running, frame_callbacks, restart_timers, cleanup_pc,
                   uuid_to_server_name, resolved>>

\* The put of the connect handler gets through once the queue has room.
ConnectPut ==
    /\ dpc = "connect_put"
    /\ Room(monitor_data_queue) > 0
    /\ monitor_data_queue' = Append(monitor_data_queue, ConnectedItem)
    /\ dpc' = "idle"
    /\ Emit(<<Msg("get_params", {})>>)
    /\ last' = Other
    /\ UNCHANGED <<active_monitors, next_monitor, subscribed_outputs,
                   socketio_connected, sio_up, connect_evt, status_update_queue,
                   delayed_request, d_todo, rpc, r_mid, r_temp,
                   closed_monitors, monitor_running, frame_callbacks, restart_timers, cleanup_pc,
                   uuid_to_server_name, resolved>>

\* The params handler (a non-empty listing): every monitor is told
\* "connected".
Params ==
    /\ dpc = "idle"
    /\ sio_up
    /\ ~connect_evt
    /\ status_update_queue' =
           UpdateAll(status_update_queue, Ascending(DOMAIN active_monitors),
                     "connected")
    /\ wire' = <<>>
    /\ last' = Other
    /\ UNCHANGED <<active_monitors, next_monitor, subscribed_outputs,
                   socketio_connected, sio_up, connect_evt, monitor_data_queue,
                   outstanding, delayed_request, dpc, d_todo, rpc, r_mid, r_temp,
                   closed_monitors, monitor_running, frame_callbacks, restart_timers, cleanup_pc,
                   uuid_to_server_name, resolved>>

\* The disconnect handler; the transport has dropped the connection.
Disconnect ==
    /\ dpc = "idle"
    /\ sio_up
    /\ ~connect_evt
    /\ sio_up' = FALSE
    /\ socketio_connected' = FALSE
    /\ status_update_queue' =
           UpdateAll(status_update_queue, Ascending(DOMAIN active_monitors),
                     "disconnected")
    /\ outstanding' = 0
    /\ wire' = <<>>
    /\ last' = Op("disconnect", 0)
    /\ UNCHANGED <<active_monitors, next_monitor, subscribed_outputs,
                   connect_evt, monitor_data_queue, delayed_request, dpc,
                   d_todo, rpc, r_mid, r_temp,
                   closed_monitors, monitor_running, frame_callbacks, restart_timers, cleanup_pc,
                   uuid_to_server_name, resolved>>

\* A fan-out that stops after the first matching monitor.
PutFirst(q, ids) ==
    IF ids = <<>> THEN q ELSE Append(q, DataItem(Head(ids)))

\* data_update, the puts that do not have to wait: the first `room` of the
\* matching monitors.
RECURSIVE PutAll(_, _)
PutAll(q, ids) ==
    IF ids = <<>> THEN q ELSE PutAll(Append(q, DataItem(Head(ids))), Tail(ids))

\* The data_update handler for a valid payload {name, data}.  The matching
\* monitors are collected and their items put while the lock is held; a put
\* that finds the queue full waits, with the lock held.
DataUpdate(name) ==
    /\ dpc = "idle"
    /\ sio_up
    /\ ~connect_evt
    /\ IF QueueFull(monitor_data_queue)
       THEN /\ last' = OpName("data_update", name)
            /\ UNCHANGED <<monitor_data_queue, dpc, d_todo>>
       ELSE LET matching == Ascending(MonitorsUsing(active_monitors, name))
                room == Room(monitor_data_queue)
                now == Min2(room, Len(matching))
            IN  /\ monitor_data_queue' =
                       PutAll(monitor_data_queue, SubSeq(matching, 1, now))
                /\ d_todo' = SubSeq(matching, now + 1, Len(matching))
                /\ dpc' = IF now < Len(matching) THEN "fanout_put" ELSE "idle"
                /\ last' = OpName("data_update", name)
    /\ wire' = <<>>
    /\ UNCHANGED <<active_monitors, next_monitor, subscribed_outputs,
                   socketio_connected, sio_up, connect_evt, status_update_queue,
                   outstanding, delayed_request, rpc, r_mid, r_temp,
                   closed_monitors, monitor_running, frame_callbacks, restart_timers, cleanup_pc,
                   uuid_to_server_name, resolved>>

\* A put of the fan-out that had to wait gets through.
FanoutPut ==
    /\ dpc = "fanout_put"
    /\ Room(monitor_data_queue) > 0
    /\ monitor_data_queue' = Append(monitor_data_queue, DataItem(Head(d_todo)))
    /\ d_todo' = Tail(d_todo)
    /\ dpc' = IF Tail(d_todo) = <<>> THEN "idle" ELSE "fanout_put"
    /\ wire' = <<>>
    /\ last' = Other
    /\ UNCHANGED <<active_monitors, next_monitor, subscribed_outputs,
                   socketio_connected, sio_up, connect_evt, status_update_queue,
                   outstanding, delayed_request, rpc, r_mid, r_temp,
                   closed_monitors, monitor_running, frame_callbacks, restart_timers, cleanup_pc,
                   uuid_to_server_name, resolved>>

\* The done handler: "if self.subscribed_outputs: self._request_next_frame()".
DoneRequests(connected, subs) ==
    IF subs # {} THEN RequestNextFrame(connected, subs) ELSE <<>>

Done ==
    /\ dpc = "idle"
    /\ sio_up
    /\ ~connect_evt
    /\ outstanding > 0
    /\ LET msgs == DoneRequests(socketio_connected, subscribed_outputs)
       IN  /\ wire' = msgs
           /\ outstanding' =
                  Min2(MaxOutstanding, outstanding - 1 + NewdataCount(msgs))
    /\ last' = Op("request", 1)
    /\ UNCHANGED <<active_monitors, next_monitor, subscribed_outputs,
                   socketio_connected, sio_up, connect_evt, monitor_data_queue,
                   status_update_queue, delayed_request, dpc, d_todo, rpc,
                   r_mid, r_temp,
                   closed_monitors, monitor_running, frame_callbacks, restart_timers, cleanup_pc,
                   uuid_to_server_name, resolved>>

\* The detached thread of the consumer step, after its sleep.
DelayedRequest ==
    /\ delayed_request
    /\ ~LockHeld
    /\ delayed_request' = FALSE
    /\ Emit(DoneRequests(socketio_connected, subscribed_outputs))
    /\ last' = Op("request", 0)
    /\ UNCHANGED <<active_monitors, next_monitor, subscribed_outputs,
                   socketio_connected, sio_up, connect_evt, monitor_data_queue,
                   status_update_queue, dpc, d_todo, rpc, r_mid, r_temp,
                   closed_monitors, monitor_running, frame_callbacks, restart_timers, cleanup_pc,
                   uuid_to_server_name, resolved>>

\* --------------------------------------- render context: periodic tasks
\* The render target of a monitor disappears without the close callback.
WindowVanish(m) ==
    /\ m \in DOMAIN active_monitors
    /\ active_monitors[m].window
    /\ active_monitors' = [active_monitors EXCEPT ![m].window = FALSE]
    /\ wire' = <<>>
    /\ last' = Other
    /\ UNCHANGED <<next_monitor, subscribed_outputs, socketio_connected, sio_up,
                   connect_evt, monitor_data_queue, status_update_queue,
                   outstanding, delayed_request, dpc, d_todo, rpc, r_mid, r_temp,
                   closed_monitors, monitor_running, frame_callbacks, restart_timers, cleanup_pc,
                   uuid_to_server_name, resolved>>

DeadMonitors(mons) == {m \in DOMAIN mons : ~mons[m].window}

\* _periodic_cleanup: "del self.active_monitors[monitor_id]" for every
\* monitor whose window is gone.
PeriodicCleanup ==
    /\ rpc = "idle"
    /\ active_monitors' = Without(active_monitors, DeadMonitors(active_monitors))
    /\ wire' = <<>>
    /\ last' = Other
    /\ UNCHANGED <<next_monitor, subscribed_outputs, socketio_connected, sio_up,
                   connect_evt, monitor_data_queue, status_update_queue,
                   outstanding, delayed_request, dpc, d_todo, rpc, r_mid, r_temp,
                   closed_monitors, monitor_running, frame_callbacks, restart_timers, cleanup_pc,
                   uuid_to_server_name, resolved>>

\* A consumer that does not look the monitor up before it acts.
MonitorExistsAlways(mons, m) == TRUE

\* "if monitor_id not in self.active_monitors: ... continue"
MonitorExists(mons, m) == m \in DOMAIN mons

\* "if not window_tag or not dpg.does_item_exist(window_tag)" on the info of
\* a monitor of the table.
WindowGone(mons, m) == m \in DOMAIN mons /\ ~mons[m].window

\* _monitor_update_frame, the data loop: at most k items; render[k] says
\* whether the item is due and plotted, or else stored as pending_data.
\* touched collects the monitors that got a sample either way.
RECURSIVE DrainData(_, _, _, _, _, _, _)
DrainData(k, q, mons, sq, processed, touched, render) ==
    IF k = 0 \/ q = <<>>
    THEN [q |-> q, mons |-> mons, sq |-> sq, processed |-> processed,
          touched |-> touched]
    ELSE LET item == Head(q)
             m == item.monitor_id
         IN  IF item.type # "data_update" \/ ~MonitorExists(mons, m)
             THEN DrainData(k - 1, Tail(q), mons, sq, processed, touched, render)
             ELSE IF WindowGone(mons, m)
             THEN DrainData(k - 1, Tail(q), Without(mons, {m}), sq, processed,
                            touched, render)
             ELSE IF render[k]
             THEN DrainData(k - 1, Tail(q), mons,
                            SafeUpdateMonitorStatus(sq, m, "receiving"),
                            processed + 1, touched \cup {m}, render)
             ELSE DrainData(k - 1, Tail(q), mons, sq, processed,
                            touched \cup {m}, render)

\* _monitor_update_frame, the status loop: the monitors whose status label
\* is set (in the snapshot, in the table, label item present).
StatusDrain(sq, mons) ==
    {sq[i].monitor_id : i \in {j \in 1..Len(sq) :
        MonitorExists(mons, sq[j].monitor_id)
            /\ ~WindowGone(mons, sq[j].monitor_id)}}

\* The monitors that are not in the table and have an item among the status
\* items or the first k data items: the step dequeues and skips these items.
StaleItems(k, q, sq, mons) ==
    {sq[i].monitor_id : i \in {j \in 1..Len(sq) :
        ~MonitorExists(mons, sq[j].monitor_id)}}
    \cup {q[i].monitor_id : i \in {j \in 1..Min2(k, Len(q)) :
        q[j].type = "data_update" /\ ~MonitorExists(mons, q[j].monitor_id)}}

\* A consumer step that schedules its next invocation at the end of the try
\* body: an exception skips it.
FinallyRescheduleUnlessRaised(raised, ok) ==
    IF raised THEN [callbacks |-> 0, timers |-> 0]
    ELSE IF ok THEN [callbacks |-> 1, timers |-> 0]
    ELSE [callbacks |-> 0, timers |-> 1]

\* The finally block of _monitor_update_frame: what it schedules, whether or
\* not the try body raised.  ok: dpg.set_frame_callback did not raise; when
\* it did, Timer(0.1, _start_monitor_updater) is started.
FinallyReschedule(raised, ok) ==
    IF ok THEN [callbacks |-> 1, timers |-> 0]
    ELSE [callbacks |-> 0, timers |-> 1]

\* _monitor_update_frame: drain the status queue, process the data batch,
\* start the delayed request; the finally block schedules the next
\* invocation.
MonitorUpdateFrame ==
    /\ rpc = "idle"
    /\ ~LockHeld
    /\ frame_callbacks > 0
    /\ \E render \in [1..MaxItemsPerFrame -> BOOLEAN] :
          LET r == DrainData(MaxItemsPerFrame, monitor_data_queue,
                             active_monitors, <<>>, 0, {}, render)
          IN  /\ monitor_data_queue' = r.q
              /\ active_monitors' = r.mons
              /\ status_update_queue' = r.sq
              /\ delayed_request' =
                     (delayed_request \/
                        (r.processed > 0 /\ socketio_connected
                           /\ Len(r.q) < NearSaturation))
              /\ last' = OpFrame(r.touched,
                                  StatusDrain(status_update_queue,
                                              active_monitors),
                                  StaleItems(MaxItemsPerFrame,
                                             monitor_data_queue,
                                             status_update_queue,
                                             active_monitors))
    /\ wire' = <<>>
    /\ frame_callbacks' =
           frame_callbacks - 1 + FinallyReschedule(FALSE, TRUE).callbacks
    /\ UNCHANGED <<next_monitor, subscribed_outputs, socketio_connected, sio_up,
                   connect_evt, outstanding, dpc, d_todo, rpc, r_mid, r_temp,
                   closed_monitors, monitor_running,
                   restart_timers, cleanup_pc, uuid_to_server_name, resolved>>

\* _monitor_update_frame when an exception escapes the try body, before the
\* status loop (drained FALSE) or after the data loop (drained TRUE): the
\* except clause logs it and the finally block runs.
MonitorUpdateFrameError(drained, ok) ==
    /\ rpc = "idle"
    /\ ~LockHeld
    /\ frame_callbacks > 0
    /\ \E render \in [1..MaxItemsPerFrame -> BOOLEAN] :
          LET r == IF drained
                   THEN DrainData(MaxItemsPerFrame, monitor_data_queue,
                                  active_monitors, <<>>, 0, {}, render)
                   ELSE [q |-> monitor_data_queue, mons |-> active_monitors,
                         sq |-> status_update_queue, processed |-> 0,
                         touched |-> {}]
          IN  /\ monitor_data_queue' = r.q
              /\ active_monitors' = r.mons
              /\ status_update_queue' = r.sq
    /\ frame_callbacks' =
           frame_callbacks - 1 + FinallyReschedule(TRUE, ok).callbacks
    /\ restart_timers' = restart_timers + FinallyReschedule(TRUE, ok).timers
    /\ wire' = <<>>
    /\ last' = Op("frame_error", 0)
    /\ UNCHANGED <<next_monitor, subscribed_outputs, socketio_connected, sio_up,
                   connect_evt, outstanding, delayed_request, dpc, d_todo, rpc,
                   r_mid, r_temp, closed_monitors, monitor_running, cleanup_pc,
                   uuid_to_server_name, resolved>>

\* The Timer started by the finally block fires: _start_monitor_updater.
StartMonitorUpdater ==
    /\ restart_timers > 0
    /\ restart_timers' = restart_timers - 1
    /\ monitor_running' = TRUE
    /\ frame_callbacks' = frame_callbacks + 1
    /\ wire' = <<>>
    /\ last' = Other
    /\ UNCHANGED <<active_monitors, next_monitor, subscribed_outputs,
                   socketio_connected, sio_up, connect_evt, monitor_data_queue,
                   status_update_queue, outstanding, delayed_request, dpc,
                   d_todo, rpc, r_mid, r_temp, closed_monitors, cleanup_pc,
                   uuid_to_server_name, resolved>>

\* ------------------------------------- render context: throttled render
\* The raw_data of a data_update event: the server's dict with 'data' and
\* 'shape'.  value says whether 'data' is there; shape is the array's shape.
RawData(value, shape) == [present |-> TRUE, value |-> value, shape |-> shape]

\* A data_update event without its data field ("raw_data is None").
NoRawData == [present |-> FALSE, value |-> FALSE, shape |-> <<>>]

\* The item data_update queues for a monitor.
DataSample(m, raw_data) ==
    [type |-> "data_update", monitor_id |-> m, data |-> raw_data]

\* The 2-D branch with the middle thresholds swapped.
MinUpdateIntervalSwapped(pixel_count) ==
    IF pixel_count > 1000000 THEN 500
    ELSE IF pixel_count > 250000 THEN 100
    ELSE IF pixel_count > 10000 THEN 250
    ELSE 50

\* _process_and_plot_data_main_thread, the 2-D branch: min_update_interval
\* for an image of pixel_count pixels.
MinUpdateInterval(pixel_count) ==
    IF pixel_count > 1000000 THEN 500
    ELSE IF pixel_count > 250000 THEN 250
    ELSE IF pixel_count > 10000 THEN 100
    ELSE 50

\* "height, width = data_array.shape; pixel_count = height * width".
PixelCount(shape) == shape[1] * shape[2]

\* _process_and_plot_data_main_thread(monitor_id, raw_data, info) at time t:
\* False when the monitor is not in the table, when its window is gone
\* (the monitor is then deleted) or when raw_data holds no data; else the
\* array is plotted, a 2-D array setting min_update_interval first, and
\* last_update is set.
ProcessAndPlot(mons, m, raw_data, t) ==
    IF ~MonitorExists(mons, m) THEN [mons |-> mons, success |-> FALSE]
    ELSE IF WindowGone(mons, m)
    THEN [mons |-> Without(mons, {m}), success |-> FALSE]
    ELSE IF ~raw_data.value THEN [mons |-> mons, success |-> FALSE]
    ELSE [mons |->
              [mons EXCEPT
                 ![m].min_update_interval =
                     IF Len(raw_data.shape) = 2
                     THEN MinUpdateInterval(PixelCount(raw_data.shape))
                     ELSE @,
                 ![m].last_update = t],
          success |-> TRUE]

\* The shapes of the arrays a render is called with: images on both sides
\* of every threshold, a vector and a 3-D array.
ImageShapes ==
    {<<1, 1>>, <<100, 100>>, <<101, 100>>, <<500, 500>>, <<501, 500>>,
     <<1000, 1000>>, <<1001, 1000>>, <<2000, 2000>>}

ArrayShapes == ImageShapes \cup {<<5>>, <<10, 10, 3>>}

\* A call of _process_and_plot_data_main_thread(m, raw_data, info) at time t
\* (the step's record: arg is the pixel count of a 2-D array, else 0;
\* samples holds the monitor).
ProcessAndPlotCall(m, raw_data, t) ==
    /\ rpc = "idle"
    /\ ~LockHeld
    /\ active_monitors' = ProcessAndPlot(active_monitors, m, raw_data, t).mons
    /\ last' = [Op("plot", IF Len(raw_data.shape) = 2
                           THEN PixelCount(raw_data.shape) ELSE 0)
                   EXCEPT !.samples = {m}]
    /\ wire' = <<>>
    /\ UNCHANGED <<next_monitor, subscribed_outputs, socketio_connected, sio_up,
                   connect_evt, monitor_data_queue, status_update_queue,
                   outstanding, delayed_request, dpc, d_todo, rpc, r_mid, r_temp,
                   closed_monitors, monitor_running, frame_callbacks,
                   restart_timers, cleanup_pc, uuid_to_server_name, resolved>>

\* A consumer that renders whatever the time since the last render.
DueAlways(info, current_time) == TRUE

\* "time_since_update >= min_interval".
Due(info, current_time) ==
    current_time - info.last_update >= info.min_update_interval

\* A consumer that keeps the sample it already holds.
StorePendingKeepFirst(info, item) ==
    [info EXCEPT !.pending_data = IF @ = <<>> THEN <<item>> ELSE @,
                 !.skipped_frames = @ + 1]

\* "info['pending_data'] = item; info['skipped_frames'] = ... + 1".
StorePending(info, item) ==
    [info EXCEPT !.pending_data = <<item>>, !.skipped_frames = @ + 1,
                 !.overtaken = FALSE]

\* A batch as long as the queue.
max_items_unlimited == DataQueueMax

\* "max_items_per_frame = 5".
max_items_per_frame == MaxItemsPerFrame

\* _monitor_update_frame, the data loop at current_time: at most k items; a
\* due item is rendered, and on success last_update is set, "receiving" is
\* pushed and processed_count grows; an item that is not due becomes
\* pending_data and skipped_frames grows.
RECURSIVE DrainTimed(_, _, _, _, _, _)
DrainTimed(k, q, mons, sq, processed, current_time) ==
    IF k = 0 \/ q = <<>>
    THEN [q |-> q, mons |-> mons, sq |-> sq, processed |-> processed]
    ELSE LET item == Head(q)
             m == item.monitor_id
         IN  IF item.type # "data_update" \/ ~MonitorExists(mons, m)
             THEN DrainTimed(k - 1, Tail(q), mons, sq, processed, current_time)
             ELSE IF WindowGone(mons, m)
             THEN DrainTimed(k - 1, Tail(q), Without(mons, {m}), sq, processed,
                             current_time)
             ELSE IF Due(mons[m], current_time)
             THEN LET r == ProcessAndPlot(mons, m, item.data, current_time)
                  IN  IF r.success
                      THEN DrainTimed(k - 1, Tail(q),
                               [r.mons EXCEPT
                                  ![m].last_update = current_time,
                                  ![m].overtaken =
                                      (r.mons[m].pending_data # <<>>)],
                               SafeUpdateMonitorStatus(sq, m, "receiving"),
                               processed + 1, current_time)
                      ELSE DrainTimed(k - 1, Tail(q), r.mons, sq, processed,
                                      current_time)
             ELSE DrainTimed(k - 1, Tail(q),
                      [mons EXCEPT ![m] = StorePending(@, item)],
                      sq, processed, current_time)

\* _monitor_update_frame, the sweep over "list(self.active_monitors.keys())":
\* a monitor with pending_data that is due is rendered from it; on success
\* last_update is set, pending_data cleared and "receiving" pushed.
RECURSIVE PendingSweep(_, _, _, _)
PendingSweep(ids, mons, sq, current_time) ==
    IF ids = <<>> THEN [mons |-> mons, sq |-> sq]
    ELSE LET m == Head(ids)
         IN  IF ~MonitorExists(mons, m) \/ mons[m].pending_data = <<>>
                \/ ~Due(mons[m], current_time)
             THEN PendingSweep(Tail(ids), mons, sq, current_time)
             ELSE LET r == ProcessAndPlot(mons, m, mons[m].pending_data[1].data,
                                          current_time)
                  IN  IF r.success
                      THEN PendingSweep(Tail(ids),
                               [r.mons EXCEPT ![m].last_update = current_time,
                                              ![m].pending_data = <<>>,
                                              ![m].overtaken = FALSE],
                               SafeUpdateMonitorStatus(sq, m, "receiving"),
                               current_time)
                      ELSE PendingSweep(Tail(ids), r.mons, sq, current_time)

\* The largest skipped_frames of the table (0 for an empty table).
MaxSkipped(mons) ==
    IF DOMAIN mons = {} THEN 0
    ELSE CHOOSE k \in {mons[m].skipped_frames : m \in DOMAIN mons} :
             \A m \in DOMAIN mons : mons[m].skipped_frames <= k

\* _monitor_update_frame with time.time() = current_time: the status loop,
\* the data loop, the sweep of pending_data, the delayed request (arg of the
\* step's record: 1 when this step starts the delayed_request thread) and
\* the finally block.
MonitorUpdateFrameAt(current_time) ==
    /\ rpc = "idle"
    /\ ~LockHeld
    /\ frame_callbacks > 0
    /\ LET d == DrainTimed(max_items_per_frame, monitor_data_queue,
                           active_monitors, <<>>, 0, current_time)
           w == PendingSweep(Ascending(DOMAIN d.mons), d.mons, d.sq,
                             current_time)
           request == d.processed > 0 /\ socketio_connected
                          /\ Len(d.q) < NearSaturation
       IN  /\ MaxSkipped(w.mons) <= MaxSkippedFrames
           /\ monitor_data_queue' = d.q
           /\ active_monitors' = w.mons
           /\ status_update_queue' = w.sq
           /\ delayed_request' = (delayed_request \/ request)
           /\ last' = [OpFrame({}, StatusDrain(status_update_queue,
                                               active_monitors),
                               StaleItems(max_items_per_frame,
                                          monitor_data_queue,
                                          status_update_queue,
                                          active_monitors))
                          EXCEPT !.arg = IF request THEN 1 ELSE 0]
    /\ wire' = <<>>
    /\ frame_callbacks' =
           frame_callbacks - 1 + FinallyReschedule(FALSE, TRUE).callbacks
    /\ UNCHANGED <<next_monitor, subscribed_outputs, socketio_connected, sio_up,
                   connect_evt, outstanding, dpc, d_todo, rpc, r_mid, r_temp,
                   closed_monitors, monitor_running,
                   restart_timers, cleanup_pc, uuid_to_server_name, resolved>>

\* "latest_items[monitor_id] = item" over the drained queue: the last data
\* item of monitor m in q.
LatestItem(q, m) ==
    LET own == SelectSeq(q, LAMBDA item :
                   item.type = "data_update" /\ item.monitor_id = m)
    IN  own[Len(own)]

\* _monitor_queue_health, the dict latest_items: one data item per monitor,
\* the last one drained, in the order the monitors first appear in the
\* queue.
RECURSIVE FirstSeen(_, _)
FirstSeen(q, seen) ==
    IF q = <<>> THEN <<>>
    ELSE IF Head(q).type = "data_update" /\ Head(q).monitor_id \notin seen
         THEN <<LatestItem(q, Head(q).monitor_id)>>
                 \o FirstSeen(Tail(q), seen \cup {Head(q).monitor_id})
         ELSE FirstSeen(Tail(q), seen)

Compact(q) ==
    FirstSeen(q, {}) \o SelectSeq(q, LAMBDA item : item.type # "data_update")

\* _monitor_queue_health when no delivery push falls between its two loops.
MonitorQueueHealth ==
    /\ rpc = "idle"
    /\ monitor_data_queue' =
           IF Len(monitor_data_queue) > HealthLimit
           THEN Compact(monitor_data_queue)
           ELSE monitor_data_queue
    /\ wire' = <<>>
    /\ last' = Other
    /\ UNCHANGED <<active_monitors, next_monitor, subscribed_outputs,
                   socketio_connected, sio_up, connect_evt, status_update_queue,
                   outstanding, delayed_request, dpc, d_todo, rpc, r_mid, r_temp,
                   closed_monitors, monitor_running, frame_callbacks, restart_timers, cleanup_pc,
                   uuid_to_server_name, resolved>>

\* _monitor_queue_health, "if qsize > 50" and the drain loop; the function runs
\* as a frame callback of the render context and takes no lock.  arg of the
\* step's record: 0 when it returns without touching the queue.
MonitorQueueHealthDrain ==
    /\ rpc = "idle"
    /\ IF Len(monitor_data_queue) > HealthLimit
       THEN /\ r_temp' = Compact(monitor_data_queue)
            /\ monitor_data_queue' = <<>>
            /\ rpc' = "health"
            /\ last' = Other
       ELSE /\ UNCHANGED <<monitor_data_queue, r_temp, rpc>>
            /\ last' = Op("health", 0)
    /\ wire' = <<>>
    /\ UNCHANGED <<active_monitors, next_monitor, subscribed_outputs,
                   socketio_connected, sio_up, connect_evt, status_update_queue,
                   outstanding, delayed_request, dpc, d_todo, r_mid,
                   closed_monitors, monitor_running, frame_callbacks,
                   restart_timers, cleanup_pc, uuid_to_server_name, resolved>>

\* _monitor_queue_health, the put-back loop: one blocking put per item; the
\* function returns after the last (arg of the step's record: 1).
MonitorQueueHealthPutBack ==
    /\ rpc = "health"
    /\ r_temp # <<>>
    /\ Room(monitor_data_queue) > 0
    /\ monitor_data_queue' = Append(monitor_data_queue, Head(r_temp))
    /\ r_temp' = Tail(r_temp)
    /\ rpc' = IF Tail(r_temp) = <<>> THEN "idle" ELSE "health"
    /\ last' = IF Tail(r_temp) = <<>> THEN Op("health", 1) ELSE Other
    /\ wire' = <<>>
    /\ UNCHANGED <<active_monitors, next_monitor, subscribed_outputs,
                   socketio_connected, sio_up, connect_evt, status_update_queue,
                   outstanding, delayed_request, dpc, d_todo, r_mid,
                   closed_monitors, monitor_running, frame_callbacks,
                   restart_timers, cleanup_pc, uuid_to_server_name, resolved>>

\* ------------------------- delivery context: data_update, stamped items
\* The item data_update queues for a monitor, with its 'timestamp'.
StampedItem(m, t) ==
    [type |-> "data_update", monitor_id |-> m, timestamp |-> t]

\* The timestamps of the data items of q.
StampsIn(q) ==
    {q[i].timestamp : i \in {j \in 1..Len(q) : q[j].type = "data_update"}}

RECURSIVE PutStamped(_, _, _)
PutStamped(q, ids, t) ==
    IF ids = <<>> THEN q
    ELSE PutStamped(Append(q, StampedItem(Head(ids), t)), Tail(ids), t)

\* The data_update handler for a valid payload when time.time() = t, later
\* than the timestamp of every item that exists (in the queue or held by a
\* purge or a health check).  A put that finds the queue full waits, with
\* the lock held.
DataUpdateAt(name, t) ==
    /\ dpc = "idle"
    /\ sio_up
    /\ ~connect_evt
    /\ \A u \in StampsIn(monitor_data_queue) \cup StampsIn(r_temp) : u < t
    /\ IF QueueFull(monitor_data_queue)
       THEN UNCHANGED <<monitor_data_queue, dpc, d_todo>>
       ELSE LET matching == Ascending(MonitorsUsing(active_monitors, name))
                room == Room(monitor_data_queue)
                now == Min2(room, Len(matching))
            IN  /\ monitor_data_queue' =
                       PutStamped(monitor_data_queue, SubSeq(matching, 1, now), t)
                /\ d_todo' = SubSeq(matching, now + 1, Len(matching))
                /\ dpc' = IF now < Len(matching) THEN "fanout_put" ELSE "idle"
    /\ last' = [OpName("data_at", name) EXCEPT !.arg = t]
    /\ wire' = <<>>
    /\ UNCHANGED <<active_monitors, next_monitor, subscribed_outputs,
                   socketio_connected, sio_up, connect_evt, status_update_queue,
                   outstanding, delayed_request, rpc, r_mid, r_temp,
                   closed_monitors, monitor_running, frame_callbacks,
                   restart_timers, cleanup_pc, uuid_to_server_name, resolved>>

\* ------------------------------------------------------ global teardown
\* cleanup(), first part: "for output_name in list(self.subscribed_outputs):
\* if self.socketio_connected: emit('unsubscribe', ...)" in the iteration
\* order of the set, then "self.monitor_running = False".
CleanupUnsubscribe ==
    /\ cleanup_pc = "run"
    /\ rpc = "idle"
    /\ \E order \in [1..Cardinality(subscribed_outputs) -> subscribed_outputs] :
          /\ \A i, j \in DOMAIN order : order[i] = order[j] => i = j
          /\ wire' = IF socketio_connected
                     THEN [i \in DOMAIN order |-> Msg("unsubscribe", {order[i]})]
                     ELSE <<>>
    /\ monitor_running' = FALSE
    /\ cleanup_pc' = "disconnect"
    /\ last' = Op("cleanup", 0)
    /\ UNCHANGED <<active_monitors, next_monitor, subscribed_outputs,
                   socketio_connected, sio_up, connect_evt, monitor_data_queue,
                   status_update_queue, outstanding, delayed_request, dpc,
                   d_todo, rpc, r_mid, r_temp, closed_monitors, frame_callbacks,
                   restart_timers, uuid_to_server_name, resolved>>

\* cleanup(), "if self.socketio_connected: self.sio.disconnect()"; the
\* client runs the disconnect handler.
CleanupDisconnect ==
    /\ cleanup_pc = "disconnect"
    /\ IF socketio_connected
       THEN /\ sio_up' = FALSE
            /\ socketio_connected' = FALSE
            /\ connect_evt' = FALSE
            /\ outstanding' = 0
            /\ status_update_queue' =
                   UpdateAll(status_update_queue,
                             Ascending(DOMAIN active_monitors), "disconnected")
       ELSE UNCHANGED <<sio_up, socketio_connected, connect_evt, outstanding,
                        status_update_queue>>
    /\ cleanup_pc' = "close"
    /\ wire' = <<>>
    /\ last' = Op("cleanup", 0)
    /\ UNCHANGED <<active_monitors, next_monitor, subscribed_outputs,
                   monitor_data_queue, delayed_request, dpc, d_todo, rpc, r_mid,
                   r_temp, closed_monitors, monitor_running, frame_callbacks,
                   restart_timers, uuid_to_server_name, resolved>>

\* cleanup(), "for monitor_id in list(self.active_monitors.keys()):
\* self._close_monitor(monitor_id)", one monitor per step, its queue purge
\* included.
CleanupCloseMonitor ==
    /\ cleanup_pc = "close"
    /\ active_monitors # <<>>
    /\ ~LockHeld
    /\ LET m == MinOf(DOMAIN active_monitors)
           name == active_monitors[m].server_output_name
           mons == Without(active_monitors, {m})
       IN  /\ active_monitors' = mons
           /\ UnsubscribeOutput(mons, name)
           /\ monitor_data_queue' = KeepOthers(monitor_data_queue, m)
           /\ closed_monitors' = closed_monitors \cup {m}
           /\ monitor_running' = (monitor_running /\ mons # <<>>)
           /\ last' = Op("cleanup", m)
    /\ UNCHANGED <<next_monitor, socketio_connected, sio_up, connect_evt,
                   status_update_queue, delayed_request, dpc, d_todo, rpc,
                   r_mid, r_temp, frame_callbacks, restart_timers, cleanup_pc,
                   uuid_to_server_name, resolved>>

\* cleanup() returns.
CleanupDone ==
    /\ cleanup_pc = "close"
    /\ active_monitors = <<>>
    /\ cleanup_pc' = "done"
    /\ wire' = <<>>
    /\ last' = Op("cleanup", 0)
    /\ UNCHANGED <<active_monitors, next_monitor, subscribed_outputs,
                   socketio_connected, sio_up, connect_evt, monitor_data_queue,
                   status_update_queue, outstanding, delayed_request, dpc,
                   d_todo, rpc, r_mid, r_temp, closed_monitors, monitor_running,
                   frame_callbacks, restart_timers, uuid_to_server_name,
                   resolved>>

\* ------------------------- delivery context: the loops over the table
\* The handlers params, connect_error and disconnect run
\* "for monitor_id in self.active_monitors: ..." on the live table without
\* monitor_lock.  Here the loop is a sequence of steps: d_todo holds the last
\* key the loop yielded, followed by the keys of the table when the loop
\* started (their number is the size the dict iterator expects).
TableIterators == {"params_iter", "disconnect_iter"}

\* The status the loop of a handler pushes.
IterStatus(pc) == IF pc = "params_iter" THEN "connected" ELSE "disconnected"

\* The params handler up to its loop over the table.
ParamsBegin ==
    /\ dpc = "idle"
    /\ sio_up
    /\ ~connect_evt
    /\ dpc' = "params_iter"
    /\ d_todo' = <<0>> \o Ascending(DOMAIN active_monitors)
    /\ wire' = <<>>
    /\ last' = Other
    /\ UNCHANGED status_update_queue
    /\ UNCHANGED <<active_monitors, next_monitor, subscribed_outputs,
                   socketio_connected, sio_up, connect_evt,
                   monitor_data_queue, outstanding, delayed_request,
                   rpc, r_mid, r_temp, closed_monitors, monitor_running,
                   frame_callbacks, restart_timers, cleanup_pc,
                   uuid_to_server_name, resolved>>

\* The disconnect handler up to its loop over the table.
DisconnectBegin ==
    /\ dpc = "idle"
    /\ sio_up
    /\ ~connect_evt
    /\ sio_up' = FALSE
    /\ socketio_connected' = FALSE
    /\ dpc' = "disconnect_iter"
    /\ d_todo' = <<0>> \o Ascending(DOMAIN active_monitors)
    /\ wire' = <<>>
    /\ last' = Op("disconnect", 0)
    /\ UNCHANGED <<active_monitors, next_monitor, subscribed_outputs,
                   connect_evt, monitor_data_queue, status_update_queue,
                   delayed_request, rpc, r_mid, r_temp, closed_monitors,
                   monitor_running, frame_callbacks, restart_timers,
                   cleanup_pc, uuid_to_server_name, resolved>>
    /\ outstanding' = 0

\* The keys the dict iterator has not passed: the table keeps insertion
\* order, and monitor ids grow with insertion.
KeysAfter(mons, pos) == {m \in DOMAIN mons : m > pos}

\* One step of the loop: the iterator raises RuntimeError when the size of
\* the table differs from the size at the start of the loop, ends when no
\* key is left, and else yields the next key, for which the status is pushed.
TableIterStep ==
    /\ dpc \in TableIterators
    /\ LET size == Len(d_todo) - 1
           rest == KeysAfter(active_monitors, d_todo[1])
       IN  IF Cardinality(DOMAIN active_monitors) # size
           THEN /\ dpc' = "idle"
                /\ d_todo' = <<>>
                /\ last' = Op("iter_error", 0)
                /\ UNCHANGED status_update_queue
           ELSE IF rest = {}
           THEN /\ dpc' = "idle"
                /\ d_todo' = <<>>
                /\ last' = Other
                /\ UNCHANGED status_update_queue
           ELSE /\ status_update_queue' =
                       SafeUpdateMonitorStatus(status_update_queue, MinOf(rest),
                                               IterStatus(dpc))
                /\ d_todo' = [d_todo EXCEPT ![1] = MinOf(rest)]
                /\ last' = Other
                /\ UNCHANGED dpc
    /\ wire' = <<>>
    /\ UNCHANGED <<active_monitors, next_monitor, subscribed_outputs,
                   socketio_connected, sio_up, connect_evt,
                   monitor_data_queue, outstanding, delayed_request,
                   rpc, r_mid, r_temp, closed_monitors, monitor_running,
                   frame_callbacks, restart_timers, cleanup_pc,
                   uuid_to_server_name, resolved>>

\* ------------------------------------------------------- the resolver
\* Strings the resolver takes apart or puts together are sequences of
\* characters.
\* str.lower(), on the letters.
LowerChar ==
    ("A" :> "a") @@ ("B" :> "b") @@ ("C" :> "c") @@ ("D" :> "d")
        @@ ("E" :> "e") @@ ("F" :> "f") @@ ("G" :> "g") @@ ("H" :> "h")
        @@ ("I" :> "i") @@ ("J" :> "j") @@ ("K" :> "k") @@ ("L" :> "l")
        @@ ("M" :> "m") @@ ("N" :> "n") @@ ("O" :> "o") @@ ("P" :> "p")
        @@ ("Q" :> "q") @@ ("R" :> "r") @@ ("S" :> "s") @@ ("T" :> "t")
        @@ ("U" :> "u") @@ ("V" :> "v") @@ ("W" :> "w") @@ ("X" :> "x")
        @@ ("Y" :> "y") @@ ("Z" :> "z")

lower(str) ==
    [i \in 1..Len(str) |-> IF str[i] \in DOMAIN LowerChar
                           THEN LowerChar[str[i]] ELSE str[i]]

\* self.graph.nodes: node id -> [type, name].
GraphNodes ==
    (<<"c", "1", "c", "2", "c", "3">> :> [type |-> <<"C", "C", "D">>, name |-> <<"C", "a", "m">>])
    @@ (<<"w", "1", "w", "2", "w", "3">> :> [type |-> <<"W", "f", "s">>, name |-> <<"w", "f", "s">>])
    @@ (<<"g", "7">> :> [type |-> <<>>, name |-> <<"g">>])

\* A node id that the graph does not hold.
UnknownNode == <<"z", "9", "y", "8", "x", "7">>

NodeUuids == (DOMAIN GraphNodes) \cup {UnknownNode}

\* The output names a caller passes; the empty one too.
OutputNames == {<<"o", "u", "t">>, <<>>}

\* The node listing of a 'params' event: server node name and class, in the
\* order of the listing.
ServerEntries ==
    { [name |-> <<"d", "e", "t", "1">>, class |-> <<"C", "C", "D">>],
      [name |-> <<"d", "e", "t", "2">>, class |-> <<"C", "C", "D">>],
      [name |-> <<"W", "F", "S">>, class |-> <<"S", "h">>] }

MaxListing == 2

Listings ==
    {l \in UNION {[1..n -> ServerEntries] : n \in 1..MaxListing} :
        \A i, j \in DOMAIN l : l[i].name = l[j].name => i = j}

\* "self.graph.nodes.get(node_uuid, {})" and "node_data.get('type', '')".
NodeTypeOf(node_uuid) ==
    IF node_uuid \in DOMAIN GraphNodes THEN GraphNodes[node_uuid].type ELSE <<>>

\* type_to_name of _get_server_output_name.
type_to_name ==
    (<<"P", "S", "F">> :> <<"p", "s", "f">>)
    @@ (<<"A", "t", "m", "o", "P", "r", "o", "p", "a", "g", "a", "t", "i", "o",
        "n">> :> <<"p", "r", "o", "p">>)
    @@ (<<"M", "o", "d", "u", "l", "a", "t", "e", "d", "P", "y", "r", "a", "m", "i",
        "d">> :> <<"p", "y", "r", "a", "m", "i", "d">>)
    @@ (<<"M", "o", "d", "a", "l", "A", "n", "a", "l", "y", "s", "i",
        "s">> :> <<"m", "o", "d", "a", "l", "_", "a", "n", "a", "l", "y",
        "s", "i", "s">>)
    @@ (<<"C", "C", "D">> :> <<"d", "e", "t", "e", "c", "t", "o", "r">>)
    @@ (<<"P", "y", "r", "S", "l", "o", "p", "e", "c">> :> <<"s", "l", "o", "p",
        "e", "c">>)
    @@ (<<"M", "o", "d", "a", "l", "r", "e", "c">> :> <<"r", "e", "c">>)
    @@ (<<"I", "n", "t", "e", "g", "r", "a", "t", "o", "r">> :> <<"c", "o", "n",
        "t", "r", "o", "l">>)
    @@ (<<"D", "M">> :> <<"d", "m">>)
    @@ (<<"A", "t", "m", "o", "E", "v", "o", "l", "u", "t", "i", "o",
        "n">> :> <<"a", "t", "m", "o">>)

\* A resolver without the static table.
TypeLookupNone(node_type) == <<>>

\* "type_to_name.get(node_type)"; None is the empty sequence.
TypeLookup(node_type) ==
    IF node_type \in DOMAIN type_to_name THEN type_to_name[node_type] ELSE <<>>

\* "self.uuid_to_server_name.get(node_uuid)".
CacheGet(cache, node_uuid) ==
    IF node_uuid \in DOMAIN cache THEN cache[node_uuid] ELSE <<>>

\* f"node_{node_uuid[:4]}".
NodePrefixName(node_uuid) ==
    <<"n", "o", "d", "e", "_">> \o SubSeq(node_uuid, 1, Min2(4, Len(node_uuid)))

\* The server_name _get_server_output_name ends up with: the cached one when
\* it is truthy, else the table's for the node's type, else the lower-cased
\* type, else node_<prefix>.
ServerNameFor(cache, node_uuid) ==
    LET cached == CacheGet(cache, node_uuid)
        node_type == NodeTypeOf(node_uuid)
        guessed == TypeLookup(node_type)
    IN  IF cached # <<>> THEN cached
        ELSE IF guessed # <<>> THEN guessed
        ELSE IF node_type # <<>> THEN lower(node_type)
        ELSE NodePrefixName(node_uuid)

\* The cache after the call: an entry is written in every branch of
\* "if not server_name".
CacheAfter(cache, node_uuid) ==
    IF CacheGet(cache, node_uuid) # <<>> THEN cache
    ELSE [n \in (DOMAIN cache) \cup {node_uuid} |->
             IF n = node_uuid THEN ServerNameFor(cache, node_uuid) ELSE cache[n]]

\* The value returned: f"{server_name}.{output_name}" when both are truthy,
\* else f"unknown.{output_name or 'output'}".
FormatOutputName(server_name, output_name) ==
    IF server_name # <<>> /\ output_name # <<>>
    THEN server_name \o <<".">> \o output_name
    ELSE <<"u", "n", "k", "n", "o", "w", "n", ".">>
         \o (IF output_name # <<>> THEN output_name
             ELSE <<"o", "u", "t", "p", "u", "t">>)

\* A call of _get_server_output_name(node_uuid, output_name).
GetServerOutputNameCall(node_uuid, output_name) ==
    /\ uuid_to_server_name' = CacheAfter(uuid_to_server_name, node_uuid)
    /\ resolved' = [node |-> node_uuid, output |-> output_name,
                    value |-> FormatOutputName(
                                  ServerNameFor(uuid_to_server_name, node_uuid),
                                  output_name)]
    /\ wire' = <<>>
    /\ last' = Op("resolve", 0)
    /\ UNCHANGED <<active_monitors, next_monitor, subscribed_outputs,
                   socketio_connected, sio_up, connect_evt, monitor_data_queue,
                   status_update_queue, outstanding, delayed_request, dpc,
                   d_todo, rpc, r_mid, r_temp, closed_monitors, monitor_running,
                   frame_callbacks, restart_timers, cleanup_pc>>

\* _update_uuid_mapping, the inner loop for one node: the first entry of the
\* listing whose class is the node's type or whose name is the node's name
\* up to case; 0 when there is none.
FirstMatch(listing, node_data) ==
    LET hits == {i \in DOMAIN listing :
                    \/ node_data.type = listing[i].class
                    \/ lower(node_data.name) = lower(listing[i].name)}
    IN  IF hits = {} THEN 0 ELSE MinOf(hits)

\* _update_uuid_mapping: every node of the graph with a match gets the
\* matching server name, whatever the mapping held for it.
UpdateUuidMapping(cache, listing) ==
    LET matched == {n \in DOMAIN GraphNodes : FirstMatch(listing, GraphNodes[n]) # 0}
    IN  [n \in (DOMAIN cache) \cup matched |->
            IF n \in matched
            THEN listing[FirstMatch(listing, GraphNodes[n])].name
            ELSE cache[n]]

\* The params handler for a non-empty listing: the mapping is updated and
\* every monitor is told "connected".
ParamsListing(listing) ==
    /\ dpc = "idle"
    /\ sio_up
    /\ ~connect_evt
    /\ uuid_to_server_name' = UpdateUuidMapping(uuid_to_server_name, listing)
    /\ status_update_queue' =
           UpdateAll(status_update_queue, Ascending(DOMAIN active_monitors),
                     "connected")
    /\ wire' = <<>>
    /\ last' = Other
    /\ UNCHANGED <<active_monitors, next_monitor, subscribed_outputs,
                   socketio_connected, sio_up, connect_evt, monitor_data_queue,
                   outstanding, delayed_request, dpc, d_todo, rpc, r_mid, r_temp,
                   closed_monitors, monitor_running, frame_callbacks,
                   restart_timers, cleanup_pc, resolved>>

\* ------------------------------- delivery context: data_update payloads
\* The payloads of data_update events: name is a server output name or
\* empty (missing), data a raw_data or NoRawData (missing).
SmallImage == RawData(TRUE, <<100, 100>>)
LargeImage == RawData(TRUE, <<1001, 1000>>)
EmptyData == RawData(FALSE, <<>>)

EventPayloads ==
    [name : ServerNames \cup {<<>>},
     data : {SmallImage, LargeImage, EmptyData, NoRawData}]

\* A handler that takes every payload for complete.
MissingFieldNever(payload) == FALSE

\* "if not name or raw_data is None".
MissingField(payload) == payload.name = <<>> \/ ~payload.data.present

RECURSIVE PutSamples(_, _, _)
PutSamples(q, ids, raw_data) ==
    IF ids = <<>> THEN q
    ELSE PutSamples(Append(q, DataSample(Head(ids), raw_data)), Tail(ids),
                    raw_data)

\* The data_update handler for any payload (arg of the step's record: 1 when
\* the name or the data field is missing): a payload with a missing field and a payload
\* arriving at a full queue are dropped; else one item per matching monitor
\* is put while the lock is held, a put that finds the queue full waiting.
DataUpdateEvent(payload) ==
    /\ dpc = "idle"
    /\ sio_up
    /\ ~connect_evt
    /\ IF MissingField(payload) \/ QueueFull(monitor_data_queue)
       THEN UNCHANGED <<monitor_data_queue, dpc, d_todo>>
       ELSE LET matching == Ascending(MonitorsUsing(active_monitors, payload.name))
                room == Room(monitor_data_queue)
                now == Min2(room, Len(matching))
            IN  /\ monitor_data_queue' =
                       PutSamples(monitor_data_queue, SubSeq(matching, 1, now),
                                  payload.data)
                /\ d_todo' = SubSeq(matching, now + 1, Len(matching))
                /\ dpc' = IF now < Len(matching) THEN "fanout_put" ELSE "idle"
    /\ last' = Op("data_event",
                  IF payload.name = <<>> \/ ~payload.data.present
                  THEN 1 ELSE 0)
    /\ wire' = <<>>
    /\ UNCHANGED <<active_monitors, next_monitor, subscribed_outputs,
                   socketio_connected, sio_up, connect_evt, status_update_queue,
                   outstanding, delayed_request, rpc, r_mid, r_temp,
                   closed_monitors, monitor_running, frame_callbacks,
                   restart_timers, cleanup_pc, uuid_to_server_name, resolved>>

\* The render context calls an operation that takes monitor_lock (the
\* consumer step, close, subscribe) while the blocked fan-out holds it.
RenderWaitsLock ==
    /\ rpc = "idle"
    /\ LockHeld
    /\ rpc' = "lock_wait"
    /\ wire' = <<>>
    /\ last' = Other
    /\ UNCHANGED <<active_monitors, next_monitor, subscribed_outputs,
                   socketio_connected, sio_up, connect_evt, monitor_data_queue,
                   status_update_queue, outstanding, delayed_request, dpc,
                   d_todo, r_mid, r_temp,
                   closed_monitors, monitor_running, frame_callbacks, restart_timers, cleanup_pc,
                   uuid_to_server_name, resolved>>

Next ==
    \/ \E node \in Nodes : OpenOutputMonitor(node)
    \/ \E m \in 1..MaxOpens : SubscribeButton(m)
    \/ \E m \in 1..MaxOpens : ReconnectButton(m)
    \/ \E m \in 1..MaxOpens : CloseMonitor(m)
    \/ ClearQueueDrain
    \/ ClearQueuePutBack
    \/ CloseReturn
    \/ Connect
    \/ ConnectPut
    \/ Params
    \/ Disconnect
    \/ \E name \in ServerNames : DataUpdate(name)
    \/ FanoutPut
    \/ Done
    \/ DelayedRequest
    \/ \E m \in 1..MaxOpens : WindowVanish(m)
    \/ PeriodicCleanup
    \/ MonitorUpdateFrame
    \/ MonitorQueueHealth
    \/ RenderWaitsLock

Spec == Init /\ [][Next]_vars

\* A session in which the transport was connected at construction and stays
\* connected, and the user only opens and closes monitors.
InitConnected == Init /\ sio_up

NextOpenClose ==
    \/ \E node \in Nodes : OpenOutputMonitor(node)
    \/ \E m \in 1..MaxOpens : CloseMonitor(m)
    \/ ClearQueueDrain
    \/ ClearQueuePutBack
    \/ CloseReturn
    \/ Connect

SpecOpenClose == InitConnected /\ [][NextOpenClose]_vars

\* A session in which monitors are opened and the transport comes and goes;
\* after a connect nothing but the program's own handlers and loops run.
\* Every pending handler, pending put and scheduled callback gets its turn.
NextReconnect ==
    \/ \E node \in Nodes : OpenOutputMonitor(node)
    \/ \E m \in 1..MaxOpens : ReconnectButton(m)
    \/ Connect
    \/ ConnectPut
    \/ Params
    \/ Disconnect
    \/ \E name \in ServerNames : DataUpdate(name)
    \/ FanoutPut
    \/ Done
    \/ DelayedRequest
    \/ MonitorUpdateFrame
    \/ MonitorQueueHealth

SpecReconnect ==
    /\ Init
    /\ [][NextReconnect]_vars
    /\ WF_vars(Connect)
    /\ WF_vars(ConnectPut)
    /\ WF_vars(Params)
    /\ WF_vars(FanoutPut)
    /\ WF_vars(Done)
    /\ WF_vars(DelayedRequest)
    /\ WF_vars(MonitorUpdateFrame)
    /\ WF_vars(MonitorQueueHealth)

\* A session in which the consumer step can hit an internal error and the
\* scheduling call of its finally block can fail.
NextConsumer ==
    \/ \E node \in Nodes : OpenOutputMonitor(node)
    \/ \E m \in 1..MaxOpens : CloseMonitor(m)
    \/ ClearQueueDrain
    \/ ClearQueuePutBack
    \/ CloseReturn
    \/ Connect
    \/ \E name \in ServerNames : DataUpdate(name)
    \/ MonitorUpdateFrame
    \/ \E drained, ok \in BOOLEAN : MonitorUpdateFrameError(drained, ok)
    \/ StartMonitorUpdater

SpecConsumer == InitConnected /\ [][NextConsumer]_vars

\* A session that ends with cleanup(): the render context's operations run
\* until cleanup starts, the delivery context's handlers go on.
NextTeardown ==
    \/ cleanup_pc = "run" /\ \E node \in Nodes : OpenOutputMonitor(node)
    \/ cleanup_pc = "run" /\ \E m \in 1..MaxOpens : CloseMonitor(m)
    \/ ClearQueueDrain
    \/ ClearQueuePutBack
    \/ CloseReturn
    \/ cleanup_pc = "run" /\ \E m \in 1..MaxOpens : WindowVanish(m)
    \/ cleanup_pc = "run" /\ PeriodicCleanup
    \/ cleanup_pc = "run" /\ MonitorUpdateFrame
    \/ Connect
    \/ Disconnect
    \/ \E name \in ServerNames : DataUpdate(name)
    \/ CleanupUnsubscribe
    \/ CleanupDisconnect
    \/ CleanupCloseMonitor
    \/ CleanupDone

SpecTeardown == Init /\ [][NextTeardown]_vars

\* A session in which the loops of the delivery handlers over the table are
\* taken one key at a time, so that the render context's operations can run
\* between two steps of a loop.
NextLock ==
    \/ \E node \in Nodes : OpenOutputMonitor(node)
    \/ \E m \in 1..MaxOpens : CloseMonitor(m)
    \/ ClearQueueDrain
    \/ ClearQueuePutBack
    \/ CloseReturn
    \/ \E m \in 1..MaxOpens : WindowVanish(m)
    \/ PeriodicCleanup
    \/ MonitorUpdateFrame
    \/ Connect
    \/ ConnectPut
    \/ ParamsBegin
    \/ DisconnectBegin
    \/ TableIterStep
    \/ \E name \in ServerNames : DataUpdate(name)
    \/ FanoutPut
    \/ MonitorQueueHealth

SpecLock == Init /\ [][NextLock]_vars

\* A session of resolver calls between 'params' listings.
NextResolve ==
    \/ Connect
    \/ \E listing \in Listings : ParamsListing(listing)
    \/ \E node_uuid \in NodeUuids, output_name \in OutputNames :
           GetServerOutputNameCall(node_uuid, output_name)

SpecResolve == Init /\ [][NextResolve]_vars

\* The values time.time() takes in a session, in milliseconds.
Epoch == 1000
Delays == {0, 50, 500}
Times == {Epoch + d : d \in Delays}

\* A session with one monitor, data_update events of every kind and
\* consumer steps at the times of Times.
NextRender ==
    \/ next_monitor = 0 /\ \E node \in Nodes : OpenOutputMonitor(node)
    \/ Connect
    \/ Disconnect
    \/ \E payload \in EventPayloads : DataUpdateEvent(payload)
    \/ \E current_time \in Times : MonitorUpdateFrameAt(current_time)
    \/ DelayedRequest

SpecRender == Init /\ [][NextRender]_vars

\* The latest of the times a consumer step runs at.
LatestTime == CHOOSE t \in Times : \A u \in Times : u <= t

\* The same session when the consumer step keeps being invoked as the clock
\* advances: the finally block of _monitor_update_frame schedules the next
\* invocation every time.
SpecRenderFair == SpecRender /\ WF_vars(MonitorUpdateFrameAt(LatestTime))

\* A session of renders of arrays of every shape.
NextInterval ==
    \/ \E node \in Nodes : OpenOutputMonitor(node)
    \/ \E m \in 1..MaxOpens, shape \in ArrayShapes, t \in Times :
           ProcessAndPlotCall(m, RawData(TRUE, shape), t)

SpecInterval == Init /\ [][NextInterval]_vars

\* An open of a monitor on an output no open monitor shows.
OpenNewOutput ==
    \E node \in Nodes :
        /\ MonitorsUsing(active_monitors,
                         GetServerOutputName(node, OutputPort)) = {}
        /\ OpenOutputMonitor(node)

\* A session of stamped deliveries while monitors are opened and closed.
NextPurge ==
    \/ OpenNewOutput
    \/ \E m \in 1..MaxOpens : CloseMonitor(m)
    \/ ClearQueueDrain
    \/ ClearQueuePutBack
    \/ CloseReturn
    \/ Connect
    \/ \E name \in ServerNames, t \in 1..MaxStamp : DataUpdateAt(name, t)
    \/ MonitorUpdateFrame

SpecPurge == Init /\ [][NextPurge]_vars

\* A session of stamped deliveries and queue-health checks.
NextHealth ==
    \/ OpenNewOutput
    \/ Connect
    \/ \E name \in ServerNames, t \in 1..MaxStamp : DataUpdateAt(name, t)
    \/ MonitorUpdateFrame
    \/ MonitorQueueHealthDrain
    \/ MonitorQueueHealthPutBack

SpecHealth == Init /\ [][NextHealth]_vars

\* ------------------------------------------------------------ properties
\* The number of 'unsubscribe' messages for a name among msgs.
UnsubscribesOf(msgs, name) ==
    Cardinality({i \in 1..Len(msgs) : msgs[i] = Msg("unsubscribe", {name})})

\* The number of data items of monitor m in q.
CountFor(q, m) == Len(SelectSeq(q, LAMBDA item : item = DataItem(m)))

\* The last n elements of a sequence.
LastN(q, n) == IF Len(q) <= n THEN q ELSE SubSeq(q, Len(q) - n + 1, Len(q))

\* _close_monitor has deleted m and has returned.
CloseReturned(m) ==
    /\ m \in closed_monitors
    /\ ~(rpc \in {"clear", "putback"} /\ r_mid = m)

\* C1: in every reachable state a server output name is in the subscribed
\* set if and only if at least one open monitor has it as its resolved name.
C1_SubscribedIffMonitored ==
    \A name \in ServerNames :
        (name \in subscribed_outputs)
            <=> (MonitorsUsing(active_monitors, name) # {})

\* C2: while the transport stays connected and monitors are only opened and
\* closed, a step emits exactly one 'unsubscribe' for a name when it takes
\* the number of open monitors on that name from 1 to 0, and none otherwise.
C2_UnsubscribeOnLastClose ==
    [][\A name \in ServerNames :
          UnsubscribesOf(wire', name) =
              IF /\ Cardinality(MonitorsUsing(active_monitors, name)) = 1
                 /\ MonitorsUsing(active_monitors', name) = {}
              THEN 1 ELSE 0]_vars

\* A close has just taken a name from one monitor to none and emitted its
\* 'unsubscribe', after both monitors had been opened.
C2_Witness ==
    /\ last.op = "close"
    /\ next_monitor = MaxOpens
    /\ \E name \in ServerNames :
          /\ wire = <<Msg("unsubscribe", {name})>>
          /\ MonitorsUsing(active_monitors, name) = {}

\* C3: closing one of several monitors on the same server name emits no
\* 'unsubscribe' and keeps the name subscribed; every valid data_update for a
\* name enqueues, by the time its handler returns, an item for each monitor
\* open on it; and an 'unsubscribe'
\* for a name is emitted only when no open monitor references the name.
C3_SharedNameKeepsDelivery ==
    [][/\ (/\ last'.op = "close"
           /\ last'.arg \in DOMAIN active_monitors
           /\ MonitorsUsing(active_monitors',
                  active_monitors[last'.arg].server_output_name) # {})
          => LET name == active_monitors[last'.arg].server_output_name
             IN  /\ UnsubscribesOf(wire', name) = 0
                 /\ name \in subscribed_outputs => name \in subscribed_outputs'
       /\ (last'.op = "data_update" /\ dpc' = "idle")
          => \A m \in MonitorsUsing(active_monitors, last'.name) :
                CountFor(monitor_data_queue', m)
                    = CountFor(monitor_data_queue, m) + 1
       /\ \A name \in ServerNames :
             UnsubscribesOf(wire', name) > 0
                 => MonitorsUsing(active_monitors', name) = {}]_vars

\* C4: the data queue never holds more than its capacity and the status
\* queue never more than its capacity.
C4_QueuesBounded ==
    /\ Len(monitor_data_queue) <= DataQueueMax
    /\ Len(status_update_queue) <= StatusQueueMax

\* Both queues are full and one more put of a fan-out is waiting.
C4_Witness ==
    /\ Len(monitor_data_queue) = DataQueueMax
    /\ Len(status_update_queue) = StatusQueueMax
    /\ dpc = "fanout_put"

\* C5: a valid data_update for a monitored name that finds the data queue at
\* capacity evicts the oldest items and admits the new ones; a status push
\* into a full status queue evicts the oldest status item and admits the new.
C5_OverflowEvictsOldest ==
    [][/\ (/\ last'.op = "data_update"
           /\ Len(monitor_data_queue) = DataQueueMax
           /\ MonitorsUsing(active_monitors, last'.name) # {})
          => monitor_data_queue' =
                LastN(PutAll(monitor_data_queue,
                             Ascending(MonitorsUsing(active_monitors, last'.name))),
                      DataQueueMax)
       /\ last'.op = "disconnect"
          => status_update_queue' =
                LastN(status_update_queue
                        \o [i \in 1..Cardinality(DOMAIN active_monitors) |->
                              StatusItem(Ascending(DOMAIN active_monitors)[i],
                                         "disconnected")],
                      StatusQueueMax)]_vars

\* C6: once close(m) has returned, no data item of m is in the data queue,
\* in the purge's temporary queue or waiting in a fan-out, in this and in
\* every later state.
C6_ClosedMonitorPurged ==
    \A m \in 1..MaxOpens :
        CloseReturned(m)
            => /\ CountFor(monitor_data_queue, m) = 0
               /\ CountFor(r_temp, m) = 0
               /\ \A i \in 1..Len(d_todo) : d_todo[i] # m

\* close(m) has returned after a purge that put an item of another monitor
\* back, and the queue has been filled again by the delivery context.
C6_Witness ==
    /\ \E m \in 1..MaxOpens : CloseReturned(m)
    /\ Len(monitor_data_queue) = DataQueueMax
    /\ \A i \in 1..Len(monitor_data_queue) :
          monitor_data_queue[i].type = "data_update"

\* C7: a close of a monitor that is not in the table changes neither the
\* table, the subscribed set nor the queues, emits nothing and returns at
\* once.
C7_CloseIdempotent ==
    [][(last'.op = "close" /\ last'.arg \notin DOMAIN active_monitors)
          => /\ UNCHANGED <<active_monitors, subscribed_outputs,
                            monitor_data_queue, status_update_queue, rpc>>
             /\ wire' = <<>>]_vars

\* A second close of a monitor that close had removed has just returned.
C7_Witness ==
    /\ last.op = "close"
    /\ rpc = "idle"
    /\ last.arg \in closed_monitors

\* C8: the render context never waits for the monitor lock while the
\* delivery context holds it waiting for space in the data queue.
C8_NoOperationBlocks == ~(dpc = "fanout_put" /\ rpc = "lock_wait")

\* C9: at most one 'newdata' request is outstanding.
C9_OneOutstanding == outstanding <= 1

RemovedMonitors == (DOMAIN active_monitors) \ (DOMAIN active_monitors')

\* C11: each 'done' makes one call of _request_next_frame: with the
\* transport connected and a non-empty subscribed set the step emits exactly
\* one 'newdata', carrying the subscribed set; with an empty set it emits
\* nothing.
C11_DoneRequestsOnce ==
    [][(last'.op = "request" /\ last'.arg = 1)
          => wire' = IF sio_up /\ subscribed_outputs # {}
                     THEN <<Msg("newdata", subscribed_outputs)>>
                     ELSE <<>>]_vars

\* C12: an open while the transport is disconnected puts the monitor's
\* server name in the subscribed set and emits nothing; the open of the
\* first monitor on a name while connected emits a 'newdata' that carries
\* the name.
C12_OpenRecordsSubscription ==
    [][next_monitor' = next_monitor + 1
          => LET name == active_monitors'[next_monitor'].server_output_name
             IN  /\ ~sio_up
                    => name \in subscribed_outputs' /\ wire' = <<>>
                 /\ (sio_up /\ MonitorsUsing(active_monitors, name) = {})
                    => \E i \in 1..Len(wire') :
                          /\ wire'[i].type = "newdata"
                          /\ name \in wire'[i].arg]_vars

\* The connect handler has run and a monitor on the name is open.
ConnectedWithMonitor(name) ==
    /\ sio_up
    /\ socketio_connected
    /\ ~connect_evt
    /\ dpc = "idle"
    /\ MonitorsUsing(active_monitors, name) # {}

\* C13: once the transport has connected while a monitor on a name is open,
\* a 'newdata' carrying the name is eventually emitted, unless the monitors
\* on the name go away or the transport drops first.
C13_ReconnectRequests ==
    \A name \in ServerNames :
        ConnectedWithMonitor(name)
            ~> \/ \E i \in 1..Len(wire) :
                     wire[i].type = "newdata" /\ name \in wire[i].arg
               \/ MonitorsUsing(active_monitors, name) = {}
               \/ ~sio_up

\* C14: every consumer step, also one whose try body raised, leaves as many
\* scheduled invocations (frame callbacks and restart timers) as it found,
\* its own replaced by the next; so while a monitor is open at least one
\* invocation is scheduled.
C14_ConsumerRearms ==
    [][/\ last'.op \in {"frame", "frame_error"}
          => /\ frame_callbacks' + restart_timers'
                    = frame_callbacks + restart_timers
             /\ frame_callbacks' + restart_timers' >= 1
       /\ active_monitors' # <<>>
          => frame_callbacks' + restart_timers' >= 1]_vars

\* A consumer step has raised with a monitor open, its scheduling call has
\* failed too, and the restart timer is pending.
C14_Witness ==
    /\ last.op = "frame_error"
    /\ active_monitors # <<>>
    /\ restart_timers = 1

\* C17: when cleanup() disconnects the transport, every monitor has been
\* closed and the consumer loop has been stopped.
C17_CloseBeforeDisconnect ==
    [][(last'.op = "cleanup" /\ sio_up /\ ~sio_up')
          => active_monitors = <<>> /\ ~monitor_running]_vars

\* C18: when cleanup() returns, the monitor table and the subscribed set are
\* empty; a step of cleanup() taken while the transport is not connected
\* emits no 'unsubscribe'.
C18_TeardownClearsState ==
    [][/\ (last'.op = "cleanup" /\ cleanup_pc' = "done")
          => active_monitors' = <<>> /\ subscribed_outputs' = {}
       /\ (last'.op = "cleanup" /\ ~sio_up)
          => \A name \in ServerNames : UnsubscribesOf(wire', name) = 0]_vars

\* The delivery context is inside a loop over the table that does not hold
\* monitor_lock.
DeliveryIteratesUnlocked == dpc \in TableIterators

\* C19: the render context never inserts into the monitor table or deletes
\* from it while a delivery handler is inside a loop over the table without
\* the lock.
C19_TableAccessLocked ==
    [][DOMAIN active_monitors' # DOMAIN active_monitors
          => ~DeliveryIteratesUnlocked]_vars

\* C20: a call of the resolver is possible for every node id and output
\* name; for a non-empty output name it returns "<name>.<output_name>" where
\* <name> is the mapped server node name when the node id has a mapping, else
\* the static table's name for the node's type, else the lower-cased type,
\* else "node_" and the first four characters of the node id; when the node
\* id had no mapping, the chosen name is its mapping after the call, and no
\* other entry changes.
C20_ResolveCascade ==
    [][/\ \A node_uuid \in NodeUuids, output_name \in OutputNames :
              ENABLED GetServerOutputNameCall(node_uuid, output_name)
       /\ last'.op = "resolve" =>
            LET id == resolved'.node
                type == NodeTypeOf(id)
                mapped == id \in DOMAIN uuid_to_server_name
                chosen ==
                    IF mapped THEN uuid_to_server_name[id]
                    ELSE IF type \in DOMAIN type_to_name THEN type_to_name[type]
                    ELSE IF type # <<>> THEN lower(type)
                    ELSE <<"n", "o", "d", "e", "_">>
                         \o [i \in 1..Min2(4, Len(id)) |-> id[i]]
            IN  /\ resolved'.output # <<>>
                     => resolved'.value = chosen \o <<".">> \o resolved'.output
                /\ mapped => uuid_to_server_name' = uuid_to_server_name
                /\ ~mapped =>
                     /\ DOMAIN uuid_to_server_name'
                            = (DOMAIN uuid_to_server_name) \cup {id}
                     /\ uuid_to_server_name'[id] = chosen
                     /\ \A n \in DOMAIN uuid_to_server_name :
                            uuid_to_server_name'[n] = uuid_to_server_name[n]]_vars

\* The resolver has returned the name a listing mapped to a node whose type
\* is in the static table, and the mapping holds the names it chose for the
\* node of an unlisted type, the node without a type and the unknown node.
C20_Witness ==
    /\ last.op = "resolve"
    /\ resolved.node = <<"c", "1", "c", "2", "c", "3">>
    /\ resolved.value = <<"d", "e", "t", "1", ".", "o", "u", "t">>
    /\ DOMAIN uuid_to_server_name = NodeUuids
    /\ uuid_to_server_name[<<"w", "1", "w", "2", "w", "3">>] = <<"w", "f", "s">>
    /\ uuid_to_server_name[<<"g", "7">>] = <<"n", "o", "d", "e", "_", "g", "7">>
    /\ uuid_to_server_name[UnknownNode] = <<"n", "o", "d", "e", "_", "z", "9", "y", "8">>

C16_VanishedTargetIsClose ==
    [][closed_monitors' = closed_monitors
          => \A m \in RemovedMonitors :
                LET name == active_monitors[m].server_output_name
                IN  /\ (/\ MonitorsUsing(active_monitors', name) = {}
                        /\ name \in subscribed_outputs)
                       => /\ name \notin subscribed_outputs'
                          /\ socketio_connected
                                => UnsubscribesOf(wire', name) = 1
                    /\ CountFor(monitor_data_queue', m) = 0]_vars

\* C21: an entry of the node-id -> server-name mapping, once set by a
\* listing or by the resolver, is never changed by a later step, so a later
\* call of the resolver for the node returns the same name.
C21_MappingStable ==
    [][\A n \in DOMAIN uuid_to_server_name :
           /\ n \in DOMAIN uuid_to_server_name'
           /\ uuid_to_server_name'[n] = uuid_to_server_name[n]]_vars

\* C22: a call of the resolver with an empty output name returns the server
\* node name the cascade chose for the node (the node's mapping after the
\* call), a dot and the placeholder "output".
C22_EmptyOutputPlaceholder ==
    [][(last'.op = "resolve" /\ resolved'.output = <<>>)
          => resolved'.value =
                 uuid_to_server_name'[resolved'.node]
                 \o <<".", "o", "u", "t", "p", "u", "t">>]_vars

\* C23: a render of a 2-dimensional array of N elements leaves the monitor
\* with a min_update_interval of 50 ms below 10000 elements, 100 ms between
\* 10000 and 250000, 250 ms between 250000 and 1000000 and 500 ms above, one
\* of the two neighbouring values at a step; and the interval is
\* non-decreasing in N: no smaller than the interval of any smaller image
\* and no larger than the interval of any larger one.
C23_IntervalMonotone ==
    [][(last'.op = "plot" /\ last'.arg > 0) =>
          \A m \in last'.samples \cap DOMAIN active_monitors' :
             LET N == last'.arg
                 i == active_monitors'[m].min_update_interval
             IN  /\ i \in {50, 100, 250, 500}
                 /\ N < 10000 => i = 50
                 /\ (10000 < N /\ N < 250000) => i = 100
                 /\ (250000 < N /\ N < 1000000) => i = 250
                 /\ N > 1000000 => i = 500
                 /\ \A shape \in ImageShapes :
                       /\ N <= PixelCount(shape)
                             => i <= MinUpdateInterval(PixelCount(shape))
                       /\ PixelCount(shape) <= N
                             => MinUpdateInterval(PixelCount(shape)) <= i]_vars

\* A monitor has just rendered an image of more than 1000000 elements and
\* has an interval of 500 ms, while another monitor, which rendered an image
\* of at most 10000 elements, has one of 50 ms.
C23_Witness ==
    /\ last.op = "plot"
    /\ last.arg = 1001000
    /\ \E m1, m2 \in DOMAIN active_monitors :
          /\ m1 \in last.samples
          /\ active_monitors[m1].min_update_interval = 500
          /\ active_monitors[m2].min_update_interval = 50

\* C24: a data_update event whose name or data field is missing leaves the
\* data queue, the status queue, the monitor table and the subscribed set
\* as they were, and its handler returns.
C24_MalformedDropped ==
    [][(last'.op = "data_event" /\ last'.arg = 1) =>
          /\ UNCHANGED <<monitor_data_queue, status_update_queue,
                         active_monitors, subscribed_outputs>>
          /\ dpc' = "idle"]_vars

\* An event with a missing field has been handled while a monitor was open
\* and the data queue had room.
C24_Witness ==
    /\ last.op = "data_event"
    /\ last.arg = 1
    /\ active_monitors # <<>>
    /\ ~QueueFull(monitor_data_queue)

\* C25: the disconnect handler sets the connected flag to false and leaves the
\* monitor table and the subscribed set alone, and when it returns, every
\* monitor that was open when it started and still is has been pushed a
\* "disconnected" status: the handler's loop has yielded it.
C25_DisconnectNotifiesAll ==
    [][/\ last'.op = "disconnect"
            => /\ ~socketio_connected'
               /\ UNCHANGED <<active_monitors, subscribed_outputs>>
       /\ (dpc = "disconnect_iter" /\ dpc' = "idle")
            => \A i \in 2..Len(d_todo) :
                  d_todo[i] \in DOMAIN active_monitors => d_todo[i] <= d_todo[1]]_vars

DequeuedFor(m) ==
    SelectSeq(SubSeq(monitor_data_queue, 1,
                     Len(monitor_data_queue) - Len(monitor_data_queue')),
              LAMBDA item : item.type = "data_update" /\ item.monitor_id = m)

\* The consumer step has pushed "receiving" for monitor m.
PushedReceiving(m) ==
    \E i \in 1..Len(status_update_queue') :
        status_update_queue'[i] = StatusItem(m, "receiving")

\* C27: when a consumer step renders a sample for a monitor, from the queue
\* or from the pending slot, the time of the step is at least the monitor's
\* min_update_interval after its last_update, and last_update becomes the
\* time of the step; a step that does not render leaves last_update alone.
C27_RendersThrottled ==
    [][last'.op = "frame" =>
          \A m \in (DOMAIN active_monitors) \cap (DOMAIN active_monitors') :
             LET before == active_monitors[m]
                 after == active_monitors'[m]
             IN  /\ after.last_update # before.last_update
                       => /\ after.last_update - before.last_update
                                >= before.min_update_interval
                          /\ after.last_update \in Times
                 /\ (PushedReceiving(m)
                        \/ (before.pending_data # <<>> /\ after.pending_data = <<>>))
                       => after.last_update # before.last_update]_vars

\* A monitor that was rendered, then got a sample too early, has had this
\* sample rendered by a later step: it has skipped a frame, its slot is
\* empty again and "receiving" has just been pushed.
C27_Witness ==
    /\ last.op = "frame"
    /\ \E m \in DOMAIN active_monitors :
          /\ active_monitors[m].skipped_frames > 0
          /\ active_monitors[m].pending_data = <<>>
          /\ active_monitors[m].last_update = Epoch + 500
          /\ status_update_queue = <<StatusItem(m, "receiving")>>

\* C28: the pending slot of a monitor holds at most one sample.  A consumer
\* step that dequeues samples for the monitor without rendering them leaves
\* the last of them in the slot, whatever the slot held, and adds their
\* number to skipped_frames; a step empties the slot only by rendering its
\* content, and a slot that keeps its content while the monitor is rendered
\* was rendered from the queue.
C28_OnePendingSample ==
    [][/\ \A m \in DOMAIN active_monitors' :
             Len(active_monitors'[m].pending_data) <= 1
       /\ last'.op = "frame" =>
            \A m \in (DOMAIN active_monitors) \cap (DOMAIN active_monitors') :
               LET before == active_monitors[m]
                   after == active_monitors'[m]
                   got == DequeuedFor(m)
                   rendered == after.last_update # before.last_update
               IN  /\ after.skipped_frames - before.skipped_frames
                          \in 0..Len(got)
                   /\ after.skipped_frames > before.skipped_frames
                          => after.pending_data = <<got[Len(got)]>>
                   /\ (got # <<>> /\ ~rendered /\ Head(got).data.value)
                          => /\ after.skipped_frames
                                    = before.skipped_frames + Len(got)
                             /\ after.pending_data = <<got[Len(got)]>>
                   /\ (before.pending_data # <<>> /\ after.pending_data = <<>>)
                          => rendered /\ PushedReceiving(m)
                   /\ (after.skipped_frames = before.skipped_frames
                          /\ after.pending_data # before.pending_data)
                          => (after.pending_data = <<>> /\ rendered)]_vars

\* A sample that was not due has taken the place of another sample in the
\* slot: the monitor has skipped two frames and holds the large image, which
\* came after the small one.
C28_Witness ==
    /\ last.op = "frame"
    /\ \E m \in DOMAIN active_monitors :
          /\ active_monitors[m].skipped_frames = 2
          /\ active_monitors[m].pending_data = <<DataSample(m, LargeImage)>>
          /\ active_monitors[m].min_update_interval = 50

\* The monitors a consumer step has rendered a sample for.
RenderedInStep ==
    {m \in (DOMAIN active_monitors) \cap (DOMAIN active_monitors') :
        active_monitors'[m].last_update # active_monitors[m].last_update}

\* C29: a consumer step starts the delayed request if and only if it has
\* rendered at least one sample, from the queue or from a pending slot, the
\* connected flag is up and the data queue is then below the saturation
\* mark.
C29_RequestAfterRender ==
    [][last'.op = "frame" =>
          (last'.arg = 1 <=>
              (RenderedInStep # {} /\ socketio_connected
                  /\ Len(monitor_data_queue') < NearSaturation))]_vars

\* C30: the consumer step runs only while a monitor is open: no step is
\* executed on an empty monitor table, and none is scheduled while the table
\* is empty and no operation of the render context is under way.
C30_LoopRunsWhileOpen ==
    [][/\ last'.op = "frame" => active_monitors # <<>>
       /\ (active_monitors' = <<>> /\ rpc' = "idle")
             => (frame_callbacks' = 0 /\ ~monitor_running')]_vars

\* ------------------------------------------------------------------- C31
\* C31: the consumer step has at most one armed next invocation: the frame
\* callbacks scheduled for _monitor_update_frame and the pending restart
\* timers never add up to more than one re-arming chain.
C31_OneArmedInvocation == frame_callbacks + restart_timers <= 1

\* ------------------------------------------------------------------- C33
\* C33: a subscribe of a name that is already in the subscribed set leaves
\* the set alone, queues no subscription status for any monitor and emits
\* no wire message.
C33_ResubscribeSilent ==
    [][(last'.op = "subscribe" /\ last'.name \in subscribed_outputs)
          => /\ subscribed_outputs' = subscribed_outputs
             /\ status_update_queue' = status_update_queue
             /\ wire' = <<>>]_vars

\* ------------------------------------------------------------------- C35
\* C35: the connected flag always agrees with the state of the transport.
C35_FlagAgreesWithTransport == socketio_connected = sio_up

C36_OneUnsubscribePerName ==
    [][last'.op = "cleanup"
          => /\ \A name \in ServerNames : UnsubscribesOf(wire', name) <= 1
             /\ cleanup_pc = "close" => wire' = <<>>]_vars

\* The pass of cleanup() has just emitted one 'unsubscribe' for each of two
\* subscribed names while monitors of both names are still open: the
\* disconnect and the closes follow.
C36_Witness ==
    /\ last.op = "cleanup"
    /\ cleanup_pc = "disconnect"
    /\ Cardinality(subscribed_outputs) = 2
    /\ \A name \in subscribed_outputs :
          /\ UnsubscribesOf(wire, name) = 1
          /\ MonitorsUsing(active_monitors, name) # {}

\* ------------------------------------------------------------------- C34
\* C34: a monitor's samples are rendered in the order they were delivered:
\* no consumer step renders, from the pending slot, a sample that was
\* delivered before a sample the monitor has already rendered from the
\* queue.
C34_RenderedInDeliveryOrder ==
    [][last'.op = "frame"
          => \A m \in (DOMAIN active_monitors) \cap (DOMAIN active_monitors') :
                (/\ active_monitors[m].pending_data # <<>>
                 /\ active_monitors[m].overtaken)
                   => active_monitors'[m].pending_data # <<>>]_vars

\* ------------------------------------------------------------------- C37
\* C37: once delivery has stopped (the transport is down) while a monitor is
\* open, and the consumer step keeps being invoked, the data queue becomes
\* empty and no sample stays parked: every monitor's pending slot is empty,
\* or holds a sample that is not yet due at the latest time of the session.
DeliveryStopped ==
    /\ ~sio_up
    /\ active_monitors # <<>>
    /\ MaxSkipped(active_monitors) = 0

NothingParked ==
    /\ monitor_data_queue = <<>>
    /\ \A m \in DOMAIN active_monitors :
          \/ active_monitors[m].pending_data = <<>>
          \/ ~Due(active_monitors[m], LatestTime)

C37_QueueAndPendingDrain == DeliveryStopped ~> NothingParked

\* The positions of the data items of q.
DataPositions(q) == {i \in 1..Len(q) : q[i].type = "data_update"}

\* The data items of q are in the order they were enqueued.
InDeliveryOrder(q) ==
    \A i, j \in DataPositions(q) : i < j => q[i].timestamp < q[j].timestamp

\* ------------------------------------------------------------------- C38
\* C38: when a close has returned, the purge has removed every item of the
\* closed monitor and the data items of the other monitors are in the queue
\* in their FIFO order, the order in which they were enqueued, also when a
\* delivery pushed between the drain and the put-back.
C38_PurgeKeepsFifo ==
    last.op = "closed"
       => /\ \A i \in 1..Len(monitor_data_queue) :
                monitor_data_queue[i].monitor_id # last.arg
          /\ InDeliveryOrder(monitor_data_queue)

\* ------------------------------------------------------------------- C39
\* C39: a queue-health check that finds no more than the limit leaves the
\* queue unchanged; one that finds more leaves, when it returns, at most one
\* data item per monitor in the queue.
C39_HealthKeepsLatest ==
    [][last'.op = "health"
          => IF last'.arg = 0
             THEN monitor_data_queue' = monitor_data_queue
             ELSE \A m \in 1..MaxOpens :
                     Cardinality({i \in DataPositions(monitor_data_queue') :
                                     monitor_data_queue'[i].monitor_id = m}) <= 1]_vars

====
